---- MODULE Spec2Model ----
(***************************************************************************)
(* A model of the log ingestion engine of logarithmic:                     *)
(*   - the Ingestion Hub (LogManager / LogBuffer, log_manager.py),         *)
(*   - the Single-File Tailer (FileWatcherThread, file_watcher.py),        *)
(*   - the Pattern Tailer (WildcardFileWatcher, wildcard_watcher.py).      *)
(*                                                                         *)
(* Text is modelled line by line: a line is a pair <<origin, n>>, a chunk  *)
(* of content is a sequence of lines.  The Hub's Qt signals are emitted by *)
(* tailer threads and handled by the thread that owns the LogManager, so   *)
(* an emit appends to a FIFO queue (sigq) and the Hub's slots run when the *)
(* owning thread takes the signal off the queue.                           *)
(***************************************************************************)
EXTENDS Integers, Sequences, FiniteSets, TLC

(***************************************************************************)
(* Bounds of the model.                                                    *)
(***************************************************************************)
MaxHubOps == 5
\* Registrations of an already registered key, and unsubscriptions of a
\* subscriber that is not subscribed, that the environment makes.
MaxRepeats == 1
SmallCap == 2

DefaultMaxLines == 10000

Keys == {"k1", "k2"}
\* The key the operations of the Hub specification act on; k2 is a bystander.
OpKeys == {"k1"}
Subs == {"s1", "s2"}
None == "none"

\* Operations done by the environment of a tailer: writes, truncations,
\* deletions, creations and replacements of its file, and calls of pause() and
\* stop().
MaxTailOps == 2
\* Lines in the file when the tailer is constructed: 0..InitLines.
InitLines == 2
\* tail_lines of the tailers constructed.
TailLines == 1
\* Operations done by the environment of a Pattern Tailer: creations, writes
\* and deletions in its directory, and calls of pause() and stop().
MaxPatOps == 3
\* Calls a Pattern Tailer makes on the LogManager.
MaxPatCalls == 4
\* Creation notifications the file system delivers for one created file.
MaxNotify == 2
\* The initial read: lines of the file at start, and the tail_lines limits tried.
MaxFileLines == 5
MaxLimit == 3
\* Pattern Tailers on one directory: how often the environment may start one,
\* and how many observers may be made for the directory.
MaxRegOps == 4
MaxObservers == 3
\* The key the tailer publishes under, and its viewer.
PathKey == "k1"
Viewer == "s1"

VARIABLES
    \* ---- Ingestion Hub (LogManager) ----
    buffers,      \* _buffers: key -> [lines, max]
    subscribers,  \* _subscribers: key -> list of subscribers
    sigq,         \* emitted Qt signals not yet handled by the Hub's thread
    recv,         \* per subscriber: the callbacks made on it, in order
    raisers,      \* the subscribers whose callbacks raise
    escaped,      \* TRUE once an exception left a Hub slot
    \* ---- history of the Hub ----
    pubSeq,       \* key -> every chunk published on it, in publish order
    procCount,    \* key -> number of content signals handled
    subAt,        \* <<key, sub>> -> procCount[key] when sub subscribed (-1: not subscribed)
    snap,         \* <<key, sub>> -> buffer lines when sub subscribed
    recvAt,       \* <<key, sub>> -> Len(recv[sub]) when sub subscribed
    expected,     \* per subscriber: the notifications issued while it was subscribed
    bufBase,      \* key -> procCount[key] when its buffer was last created or cleared
    cnt,          \* how many operations of each kind the environment has done
    \* ---- Single-File Tailer (FileWatcherThread) and its file ----
    fs,           \* the file system at the tailer's path
    tl,           \* the tailer's fields, its threads' positions, and what it has sent
    \* ---- Pattern Tailer (WildcardFileWatcher) and its directory ----
    pd,           \* the directory the pattern names
    pt,           \* the tailer's fields, its threads' positions, and what it has sent
    \* ---- Pattern Tailers that share the watch of one directory ----
    reg,          \* _DIRECTORY_OBSERVERS[directory] and the observers made for it
    ws,           \* per tailer: _running, _observer, _dir_handler, position of run()
    \* ---- the file source that owns a tailer (FileProvider) ----
    fp,           \* _running, _watcher, _is_wildcard, the mode, and the calls made on it
    \* ---- the Hub's lock and the threads inside the Hub's methods ----
    lk            \* _lock's owner, each thread's position, and what the last step touched

hubVars == <<buffers, subscribers, sigq, recv, raisers, escaped>>
hubHist == <<pubSeq, procCount, subAt, snap, recvAt, expected, bufBase>>

tailVars == <<fs, tl>>
\* Everything outside the Hub.
patVars == <<pd, pt>>
regVars == <<reg, ws, fp, lk>>
nonHub == <<tailVars, patVars, regVars>>
vars == <<hubVars, hubHist, cnt, tailVars, patVars, regVars>>

Count(kind) == cnt' = [cnt EXCEPT ![kind] = @ + 1]

\* Calls made on the Hub so far that found nothing to do.
Repeats == cnt.dup + cnt.nop

\* Operations done on the Hub by its environment so far.
HubOps == cnt.pub + cnt.evt + cnt.sub + cnt.reg

(***************************************************************************)
(* Sequence helpers.                                                       *)
(***************************************************************************)
Range(s) == {s[i] : i \in 1..Len(s)}

RECURSIVE Flatten(_)
Flatten(ss) == IF ss = <<>> THEN <<>> ELSE Head(ss) \o Flatten(Tail(ss))

\* The read by mode of _start_tailing, _reload_file and _switch_to_file:
\* readlines() cut to its last k lines if it has more, or read().
ReadFirstLines(lines, tailOnly, k) ==
    IF tailOnly /\ Len(lines) > k THEN SubSeq(lines, 1, k) ELSE lines
ReadByMode(lines, tailOnly, k) ==
    IF tailOnly /\ Len(lines) > k THEN SubSeq(lines, Len(lines) - k + 1, Len(lines))
    ELSE lines

LastN(s, n) == IF Len(s) <= n THEN s ELSE SubSeq(s, Len(s) - n + 1, Len(s))

IsPrefix(s, t) == Len(s) <= Len(t) /\ SubSeq(t, 1, Len(s)) = s

IsSuffix(s, t) == Len(s) <= Len(t) /\ SubSeq(t, Len(t) - Len(s) + 1, Len(t)) = s

\* list.remove(x), for a list without duplicates
RemoveNone(s, x) == s
Remove(s, x) == SelectSeq(s, LAMBDA y : y # x)

(***************************************************************************)
(* LogBuffer                                                               *)
(***************************************************************************)
\* str.splitlines(keepends=True) of a chunk: the chunk's lines, one entry each.
SplitLines(content) == [i \in 1..Len(content) |-> content[i]]

NewBuffer(max) == [lines |-> <<>>, max |-> max]

\* LogBuffer.append: extend a deque(maxlen=max) with the chunk's lines.
BufAppendKeepOldest(buf, content) ==
    LET all == buf.lines \o SplitLines(content)
    IN  [buf EXCEPT !.lines = IF Len(all) <= buf.max THEN all
                               ELSE SubSeq(all, 1, buf.max)]
BufAppend(buf, content) ==
    [buf EXCEPT !.lines = LastN(@ \o SplitLines(content), buf.max)]

\* LogBuffer.get_content: "".join(lines)
GetContent(buf) == buf.lines

BufClear(buf) == [buf EXCEPT !.lines = <<>>]

(***************************************************************************)
(* Signals and notification dispatch                                       *)
(***************************************************************************)
Sig(s, k, c, r) == [sig |-> s, key |-> k, content |-> c, reason |-> r]

SubsOf(k) == IF k \in DOMAIN subscribers THEN subscribers[k] ELSE <<>>

\* Index of the first subscriber of `list` whose callback raises (Len if none).
FirstRaiser(list) ==
    IF \E i \in 1..Len(list) : list[i] \in raisers
    THEN CHOOSE i \in 1..Len(list) :
            list[i] \in raisers /\ \A j \in 1..(i-1) : list[j] \notin raisers
    ELSE Len(list)

\* for subscriber in subscribers: try: subscriber.on_xxx(...) except Exception: log
\* Every callback of the list is invoked, and no exception leaves the loop.
CalledUncaught(list) == Range(SubSeq(list, 1, FirstRaiser(list)))
Called(list) == Range(list)

Escapes(list) == FALSE

Dispatch(list, note) ==
    /\ recv' = [s \in Subs |-> IF s \in Called(list) THEN Append(recv[s], note) ELSE recv[s]]
    /\ escaped' = (escaped \/ Escapes(list))
    /\ expected' = [s \in Subs |-> IF s \in Range(list) THEN Append(expected[s], note)
                                   ELSE expected[s]]

\* Signal.emit from a thread other than the LogManager's: a queued connection.
EmitAtFront(q, sg) == <<sg>> \o q
Emit(q, sg) == Append(q, sg)

(***************************************************************************)
(* LogManager operations                                                   *)
(***************************************************************************)
\* The count of a registration of k that finds k registered: one more
\* repeated registration, and one more made on a key that had buffered lines,
\* a subscriber and another capacity.
CountRepeat(k, max) ==
    cnt' = [cnt EXCEPT !.dup = @ + 1,
                       !.full = IF /\ buffers[k].lines # <<>>
                                   /\ subscribers[k] # <<>>
                                   /\ buffers[k].max # max
                                THEN @ + 1 ELSE @]

\* register_log
RegisterLogAnew(k, max) ==
    /\ HubOps < MaxHubOps
    /\ buffers' = [x \in DOMAIN buffers \cup {k} |->
                     IF x = k THEN NewBuffer(max) ELSE buffers[x]]
    /\ subscribers' = [x \in DOMAIN subscribers \cup {k} |->
                     IF x = k THEN <<>> ELSE subscribers[x]]
    /\ bufBase' = [bufBase EXCEPT ![k] = procCount[k]]
    /\ IF k \notin DOMAIN buffers THEN Count("reg")
       ELSE Repeats < MaxRepeats /\ CountRepeat(k, max)
    /\ UNCHANGED <<sigq, recv, raisers, escaped, pubSeq, procCount, subAt, snap, recvAt,
                   expected>>
    /\ UNCHANGED nonHub
RegisterLog(k, max) ==
    /\ HubOps < MaxHubOps
    /\ IF k \notin DOMAIN buffers
       THEN /\ buffers' = [x \in DOMAIN buffers \cup {k} |->
                             IF x = k THEN NewBuffer(max) ELSE buffers[x]]
            /\ subscribers' = [x \in DOMAIN subscribers \cup {k} |->
                             IF x = k THEN <<>> ELSE subscribers[x]]
            /\ bufBase' = [bufBase EXCEPT ![k] = procCount[k]]
            /\ Count("reg")
       ELSE /\ Repeats < MaxRepeats
            /\ CountRepeat(k, max)
            /\ UNCHANGED <<buffers, subscribers, bufBase>>
    /\ UNCHANGED <<sigq, recv, raisers, escaped, pubSeq, procCount, subAt, snap, recvAt,
                   expected>>
    /\ UNCHANGED nonHub

UnregisterLog(k) ==
    /\ HubOps < MaxHubOps
    /\ IF k \in DOMAIN buffers
       THEN /\ buffers' = [x \in DOMAIN buffers \ {k} |-> buffers[x]]
            /\ subscribers' = [x \in DOMAIN subscribers \ {k} |-> subscribers[x]]
            /\ subAt' = [p \in Keys \X Subs |-> IF p[1] = k THEN -1 ELSE subAt[p]]
            /\ Count("reg")
       ELSE UNCHANGED <<buffers, subscribers, subAt, cnt>>
    /\ UNCHANGED <<sigq, recv, raisers, escaped, pubSeq, procCount, snap, recvAt, expected,
                   bufBase>>
    /\ UNCHANGED nonHub

\* The catch-up call of subscribe: the buffer's content, when it has any.
CatchUpNone(k, s) == <<>>
CatchUp(k, s) ==
    IF k \in DOMAIN buffers /\ Len(buffers[k].lines) > 0
    THEN <<Sig("content", k, GetContent(buffers[k]), "")>>
    ELSE <<>>

Subscribe(k, s) ==
    /\ HubOps < MaxHubOps
    /\ IF k \in DOMAIN subscribers /\ s \notin Range(subscribers[k])
       THEN /\ subscribers' = [subscribers EXCEPT ![k] = Append(@, s)]
            /\ recv' = [recv EXCEPT ![s] = @ \o CatchUp(k, s)]
            /\ subAt' = [subAt EXCEPT ![<<k, s>>] = procCount[k]]
            /\ snap' = [snap EXCEPT ![<<k, s>>] = buffers[k].lines]
            /\ recvAt' = [recvAt EXCEPT ![<<k, s>>] = Len(recv[s])]
            /\ expected' = [expected EXCEPT ![s] =
                              IF buffers[k].lines = <<>> THEN @
                              ELSE Append(@, Sig("content", k, buffers[k].lines, ""))]
            /\ Count("sub")
       ELSE UNCHANGED <<subscribers, recv, subAt, snap, recvAt, expected, cnt>>
    /\ UNCHANGED <<buffers, sigq, raisers, escaped, pubSeq, procCount, bufBase>>
    /\ UNCHANGED nonHub

Unsubscribe(k, s) ==
    /\ HubOps < MaxHubOps
    /\ IF k \in DOMAIN subscribers /\ s \in Range(subscribers[k])
       THEN /\ subscribers' = [subscribers EXCEPT ![k] = Remove(@, s)]
            /\ subAt' = [subAt EXCEPT ![<<k, s>>] = -1]
            /\ Count("sub")
       ELSE /\ Repeats < MaxRepeats
            /\ Count("nop")
            /\ UNCHANGED <<subscribers, subAt>>
    /\ UNCHANGED <<buffers, sigq, recv, raisers, escaped, pubSeq, procCount, snap,
                   recvAt, expected, bufBase>>
    /\ UNCHANGED nonHub

\* The part of the Hub that a caller's thread touches: the signal queue, the
\* buffers, and the history of what was published.
HubNow == [q |-> sigq, pub |-> pubSeq, bufs |-> buffers, base |-> bufBase]

\* publish_content: self.log_content_available.emit(path, content)
PublishContent(h, k, c) ==
    [h EXCEPT !.q = Emit(@, Sig("content", k, c, "")),
              !.pub[k] = Append(@, c)]

\* A publish_stream_interrupted that would drop the reason.
PublishStreamInterruptedBare(h, k, r) == [h EXCEPT !.q = Emit(@, Sig("interrupted", k, <<>>, ""))]

\* publish_stream_interrupted: self.stream_interrupted.emit(path, reason)
PublishStreamInterrupted(h, k, r) == [h EXCEPT !.q = Emit(@, Sig("interrupted", k, <<>>, r))]

\* publish_stream_resumed: self.stream_resumed.emit(path)
PublishStreamResumed(h, k) == [h EXCEPT !.q = Emit(@, Sig("resumed", k, <<>>, ""))]

\* A clear_buffer that would emit log_cleared for any key.
ClearBufferAnyKey(h, k) ==
    IF k \in DOMAIN h.bufs
    THEN [h EXCEPT !.bufs[k] = BufClear(@),
                   !.q = Emit(@, Sig("cleared", k, <<>>, "")),
                   !.base[k] = procCount[k]]
    ELSE [h EXCEPT !.q = Emit(@, Sig("cleared", k, <<>>, ""))]

\* clear_buffer: the buffer is cleared by the caller, then log_cleared is emitted.
ClearBuffer(h, k) ==
    IF k \in DOMAIN h.bufs
    THEN [h EXCEPT !.bufs[k] = BufClear(@),
                   !.q = Emit(@, Sig("cleared", k, <<>>, "")),
                   !.base[k] = procCount[k]]
    ELSE h

\* One call made on the LogManager by a producer; "clear" stands for clear_buffer.
HubCall(h, call) ==
    CASE call.sig = "content"     -> PublishContent(h, call.key, call.content)
      [] call.sig = "interrupted" -> PublishStreamInterrupted(h, call.key, call.reason)
      [] call.sig = "resumed"     -> PublishStreamResumed(h, call.key)
      [] call.sig = "clear"       -> ClearBuffer(h, call.key)

RECURSIVE HubCallsFrom(_, _)
HubCallsFrom(h, calls) ==
    IF calls = <<>> THEN h ELSE HubCallsFrom(HubCall(h, Head(calls)), Tail(calls))

\* The calls, made in order by one thread, as one step.
HubCalls(calls) ==
    LET h == HubCallsFrom(HubNow, calls)
    IN  /\ sigq' = h.q
        /\ pubSeq' = h.pub
        /\ buffers' = h.bufs
        /\ bufBase' = h.base

\* _on_content_available
OnContentAvailable(k, c) ==
    /\ buffers' = IF k \in DOMAIN buffers
                  THEN [buffers EXCEPT ![k] = BufAppend(@, c)]
                  ELSE buffers
    /\ procCount' = [procCount EXCEPT ![k] = @ + 1]
    /\ Dispatch(SubsOf(k), Sig("content", k, c, ""))

\* _on_cleared, _on_stream_interrupted, _on_stream_resumed
OnEvent(sg) ==
    /\ Dispatch(SubsOf(sg.key), sg)
    /\ UNCHANGED <<buffers, procCount>>

\* The Hub's thread takes the oldest queued signal and runs its slot.
HubProcess ==
    /\ sigq # <<>>
    /\ sigq' = Tail(sigq)
    /\ IF Head(sigq).sig = "content"
       THEN OnContentAvailable(Head(sigq).key, Head(sigq).content)
       ELSE OnEvent(Head(sigq))
    /\ UNCHANGED <<subscribers, raisers, pubSeq, subAt, snap, recvAt, bufBase, cnt>>
    /\ UNCHANGED nonHub

(***************************************************************************)
(* The file at the Single-File Tailer's path.  A file is an inode; the     *)
(* path names at most one inode at a time and a reader that holds an inode *)
(* open keeps reading it after the path has moved on.  A line is           *)
(* <<inode, n>>, n counting every line ever written, so that lines of      *)
(* different files, and lines written before and after a truncation, are   *)
(* distinct.  Inode numbers are not reused.                                *)
(***************************************************************************)
MaxIno == MaxTailOps + 1

NoFiles ==
    [ino   |-> 0,                          \* inode at the path, 0: no file
     data  |-> [i \in 1..MaxIno |-> <<>>], \* inode -> its lines
     mtime |-> [i \in 1..MaxIno |-> 0],    \* inode -> st_mtime
     clock |-> 0,                          \* latest timestamp handed out
     used  |-> 0,                          \* inodes allocated so far
     lines |-> 0,                          \* lines written so far
     parent |-> TRUE,                      \* the path's parent directory exists
     readable |-> TRUE,                    \* os.access(path, R_OK), and open() succeeds
     truncs |-> 0,                         \* history: truncations of the file
     dels   |-> 0]                         \* history: deletions of the file

Exists == fs.ino # 0

FileData == fs.data[fs.ino]

\* A write is stamped with the current time, which may not have advanced since
\* the previous write.
Stamps == {fs.clock, fs.clock + 1}

\* FileState: what stat() of the path returns, or None.
NoState == [known |-> FALSE, mtime |-> 0, size |-> 0, inode |-> 0]

FromPath ==
    IF Exists
    THEN [known |-> TRUE, mtime |-> fs.mtime[fs.ino], size |-> Len(FileData),
          inode |-> fs.ino]
    ELSE NoState

(***************************************************************************)
(* Single-File Tailer: FileWatcherThread.  Its callbacks are functions     *)
(* from the tailer's state to its next state, reading the file system as   *)
(* it is at that step.  A callback is one step, except _start_tailing and  *)
(* _reload_file, which go to the file system several times and are split   *)
(* where they do.  The worker thread polls every 100 ms and reconciles on  *)
(* every _poll_interval-th wake-up; a step of the loop here is one such    *)
(* reconciliation (the wake-ups in between do nothing).                    *)
(***************************************************************************)
NoHandle == [open |-> FALSE, ino |-> 0, pos |-> 0]

\* "\n============= File Reloaded =============\n" is two lines.
Separator == << <<0, 1>>, <<0, 2>> >>

NewTailer(tailOnly) ==
    [running  |-> FALSE,     \* _running
     paused   |-> FALSE,     \* _paused
     buffer   |-> <<>>,      \* _buffer
     handle   |-> NoHandle,  \* _file_handle: the inode it reads and its offset
     last     |-> NoState,   \* _last_file_state
     obs      |-> "none",    \* _observer: none, or watching for "create" or to "tail"
     evq      |-> <<>>,      \* events the observer has yet to dispatch
     tailOnly |-> tailOnly,  \* _tail_only
     tailLines |-> TailLines, \* _tail_lines
     wpc      |-> "init",    \* where the worker thread (run) is
     opc      |-> "idle",    \* where the thread of a creation callback is
     log      |-> <<>>,      \* history: the calls made on the LogManager
     emits    |-> <<>>,      \* history: the chunks emitted by new_lines
     errs     |-> 0,         \* history: error_occurred emissions
     tickBit  |-> FALSE,     \* history: flips at every reconciliation
     truncPending |-> FALSE, \* history: truncated since the tailer last reset its offset
     pauseMark |-> 0,        \* history: lines written when pause() was last called
     pauseTailing |-> FALSE, \* history: the tailer was Tailing when pause() was last called
     reread   |-> 0,         \* history: inode read by the latest _reload_file
     reloaded |-> 0,         \* history: inode opened by the latest completed _reload_file
     denied   |-> 0,         \* history: FileAccessErrors raised by _start_tailing
     arms     |-> 0]         \* history: creation observers started

Log(st, call) == [st EXCEPT !.log = Append(@, call)]

\* self._log_manager.publish_content(self._path_key, c)
PubContent(st, c) == Log(st, Sig("content", PathKey, c, ""))

PubInterrupted(st, reason) == Log(st, Sig("interrupted", PathKey, <<>>, reason))

PubResumed(st) == Log(st, Sig("resumed", PathKey, <<>>, ""))

PubClear(st) == Log(st, Sig("clear", PathKey, <<>>, ""))

\* self.new_lines.emit(c)
NewLines(st, c) == [st EXCEPT !.emits = Append(@, c)]

\* self.error_occurred.emit(...)
ErrorOccurred(st) == [st EXCEPT !.errs = @ + 1]

SetPc(st, th, pc) == IF th = "w" THEN [st EXCEPT !.wpc = pc] ELSE [st EXCEPT !.opc = pc]

\* Where a thread is once _start_tailing has returned.
Returned(th) == IF th = "w" THEN "loop" ELSE "idle"

\* _cleanup: close the handle, stop the observer (its undispatched events go).
Cleanup(st) == [st EXCEPT !.handle = NoHandle, !.obs = "none", !.evq = <<>>]

\* _watch_for_creation (the parent directory exists).
WatchForCreation(st) == [st EXCEPT !.obs = "create", !.evq = <<>>, !.arms = @ + 1]

\* An exception leaves _start_tailing: run() reports it and cleans up; in a
\* creation callback it ends the callback.
Raised(st, th) ==
    IF th = "w" THEN SetPc(Cleanup(ErrorOccurred(st)), th, "done")
    ELSE SetPc(st, th, "idle")

\* raise FileAccessError(...), lines 198, 222 and 241.
AccessDenied(st, th) == Raised([st EXCEPT !.denied = @ + 1], th)

\* FileWatcherThread.__init__: the path is resolved and the fields are set.
FileWatcherInit(st) == [st EXCEPT !.wpc = "init"]

\* run, lines 117-126: the existence check that chooses between tailing and
\* waiting for the file.
RunStart(st) ==
    LET r == [st EXCEPT !.running = TRUE]
    IN  IF Exists THEN [r EXCEPT !.wpc = "begin"] ELSE [r EXCEPT !.wpc = "arm"]

\* run, line 128: _watch_for_creation, which raises InvalidPathError if the
\* parent directory is missing.
RunArm(st) ==
    IF ~fs.parent THEN Raised(st, "w")
    ELSE [WatchForCreation(st) EXCEPT !.wpc = "loop"]

\* The content read on start and on reload, by mode.
InitialContent(st) == ReadByMode(FileData, st.tailOnly, st.tailLines)

\* _start_tailing, lines 193-232: read and publish the file, start the observer.
StartTailingRead(st, th) ==
    IF ~Exists THEN SetPc(st, th, Returned(th))
    ELSE IF ~fs.readable THEN AccessDenied(st, th)
    ELSE LET c == InitialContent(st)
             p == IF c = <<>> THEN st
                  ELSE IF st.paused THEN PubContent(st, c)
                  ELSE NewLines(PubContent(st, c), c)
         IN  SetPc([p EXCEPT !.obs = "tail", !.evq = <<>>], th, "open")

\* _start_tailing, lines 234-241: open the live handle and seek to the end.
StartTailingOpen(st, th) ==
    IF ~Exists THEN Raised(st, th)
    ELSE IF ~fs.readable THEN AccessDenied(st, th)
    ELSE SetPc([st EXCEPT !.handle = [open |-> TRUE, ino |-> fs.ino,
                                      pos |-> Len(FileData)],
                          !.truncPending = FALSE],
               th, "stat")

\* _start_tailing, lines 243-249: record the file state.
StartTailingStat(st, th) == SetPc([st EXCEPT !.last = FromPath], th, Returned(th))

\* The test of _on_file_modified for a truncation: size below the offset.
SizeBelowOffset(st) == Exists /\ Len(FileData) < st.handle.pos

\* _on_file_modified
OnFileModified(st) ==
    IF ~st.handle.open \/ ~st.running THEN st
    ELSE LET t == SizeBelowOffset(st)
             a == IF t
                  THEN [PubResumed(PubInterrupted(st, "File truncated/rotated"))
                          EXCEPT !.handle.pos = 0, !.truncPending = FALSE]
                  ELSE st
             d == fs.data[st.handle.ino]
             lines == SubSeq(d, a.handle.pos + 1, Len(d))
         IN  IF lines = <<>> THEN a
             ELSE LET p == PubContent([a EXCEPT !.handle.pos = Len(d)], lines)
                  IN  IF st.paused THEN [p EXCEPT !.buffer = @ \o lines]
                      ELSE NewLines(p, lines)

\* _on_file_deleted, lines 438-441: the interruption, and the state is reset.
OnFileDeletedPublish(st) ==
    [PubInterrupted(st, "File deleted") EXCEPT !.last = NoState, !.truncPending = FALSE]

\* _on_file_deleted, lines 442-445: _cleanup, and the creation watch.
OnFileDeletedRearm(st) ==
    LET c == Cleanup(st)
    IN  IF c.running THEN WatchForCreation(c) ELSE c

\* _on_file_deleted
OnFileDeleted(st) ==
    LET c == Cleanup([PubInterrupted(st, "File deleted")
                        EXCEPT !.last = NoState, !.truncPending = FALSE])
    IN  IF c.running THEN WatchForCreation(c) ELSE c

\* _handle_truncation
HandleTruncation(st) ==
    IF ~st.handle.open THEN st
    ELSE LET a == PubContent(PubResumed(PubInterrupted(st, "File truncated/rotated")),
                             Separator)
             b == IF st.paused THEN a ELSE NewLines(a, Separator)
             d == fs.data[st.handle.ino]
             p == PubContent([b EXCEPT !.handle.pos = Len(d)], d)
         IN  IF d = <<>> THEN [b EXCEPT !.handle.pos = 0]
             ELSE IF st.paused THEN [p EXCEPT !.buffer = @ \o d]
             ELSE NewLines(p, d)

\* _reload_file, lines 343-355: interruption, close the handle, clear the buffer.
ReloadStart(st, reason) ==
    [PubClear([PubInterrupted(st, reason) EXCEPT !.handle = NoHandle])
        EXCEPT !.wpc = "reread"]

\* _reload_file, lines 357-377: read the file at the path again.
ReloadRead(st) ==
    IF ~Exists \/ ~fs.readable THEN [ErrorOccurred(st) EXCEPT !.wpc = "loop"]
    ELSE LET c == InitialContent(st)
             p == PubContent(st, c)
             q == IF c = <<>> THEN st
                  ELSE IF st.paused THEN [p EXCEPT !.buffer = @ \o c]
                  ELSE NewLines(p, c)
         IN  [q EXCEPT !.wpc = "reopen", !.reread = fs.ino]

\* A reload that would publish the resumption before the separator.
ReloadReopenResumedFirst(st) ==
    IF ~Exists \/ ~fs.readable THEN [ErrorOccurred(st) EXCEPT !.wpc = "loop"]
    ELSE LET a == PubContent(PubResumed([st EXCEPT !.handle = [open |-> TRUE, ino |-> fs.ino,
                                                               pos |-> Len(FileData)]]),
                             Separator)
             b == IF st.paused THEN a ELSE NewLines(a, Separator)
         IN  [b EXCEPT !.last = FromPath,
                       !.wpc = "loop", !.reloaded = fs.ino, !.truncPending = FALSE]

\* _reload_file, lines 379-398: reopen at the end, separator, state, resumption.
ReloadReopen(st) ==
    IF ~Exists \/ ~fs.readable THEN [ErrorOccurred(st) EXCEPT !.wpc = "loop"]
    ELSE LET a == PubContent([st EXCEPT !.handle = [open |-> TRUE, ino |-> fs.ino,
                                                    pos |-> Len(FileData)]],
                             Separator)
             b == IF st.paused THEN a ELSE NewLines(a, Separator)
         IN  [PubResumed([b EXCEPT !.last = FromPath])
                EXCEPT !.wpc = "loop", !.reloaded = fs.ino, !.truncPending = FALSE]

\* The test of _validate_file_state for a truncation.
SizeNeverBelow(cur, last) == FALSE
SizeBelowLast(cur, last) == cur.size < last.size

\* A validation that would test the size before the inode.
ValidateFileStateSizeFirst(st) ==
    IF ~st.handle.open THEN st
    ELSE IF ~Exists THEN OnFileDeleted(st)
    ELSE IF ~st.last.known THEN [st EXCEPT !.last = FromPath]
    ELSE IF SizeBelowLast(FromPath, st.last)
         THEN [HandleTruncation(st) EXCEPT !.last = FromPath]
    ELSE IF FromPath.inode # st.last.inode THEN ReloadStart(st, "File replaced")
    ELSE IF FromPath.mtime > st.last.mtime
         THEN [(IF FromPath.size > st.last.size THEN OnFileModified(st) ELSE st)
                 EXCEPT !.last = FromPath]
    ELSE st

\* _validate_file_state
ValidateFileState(st) ==
    IF ~st.handle.open THEN st
    ELSE IF ~Exists THEN OnFileDeleted(st)
    ELSE IF ~st.last.known THEN [st EXCEPT !.last = FromPath]
    ELSE IF FromPath.inode # st.last.inode THEN ReloadStart(st, "File replaced")
    ELSE IF SizeBelowLast(FromPath, st.last)
         THEN [HandleTruncation(st) EXCEPT !.last = FromPath]
    ELSE IF FromPath.mtime > st.last.mtime
         THEN [(IF FromPath.size > st.last.size THEN OnFileModified(st) ELSE st)
                 EXCEPT !.last = FromPath]
    ELSE st

(***************************************************************************)
(* The directory of the Pattern Tailer.  Names that match the pattern and  *)
(* one that does not; as for the single file, a name is bound to an inode  *)
(* that keeps its lines while a reader holds it open.                      *)
(***************************************************************************)
LogNames == {"a.log", "b.log"}
DirNames == LogNames \cup {"c.txt"}

\* File names of patterns: "*.log", "app-?.log" and "a.log".
StarLog == <<"*", ".log">>
Patterns == {StarLog, <<"app-", "?", ".log">>, <<"a.log">>}

\* fnmatch.fnmatch(filename, pattern_name), for the names of DirNames.
Fnmatch(n, p) ==
    IF p = StarLog THEN n \in LogNames
    ELSE IF p = <<"a.log">> THEN n = "a.log"
    ELSE FALSE

Matches(n) == Fnmatch(n, pt.pattern)

MaxPatIno == MaxPatOps + 2

NoDir ==
    [at    |-> [n \in DirNames |-> 0],        \* name -> inode, 0: no such file
     data  |-> [i \in 1..MaxPatIno |-> <<>>], \* inode -> its lines
     mtime |-> [i \in 1..MaxPatIno |-> 0],    \* inode -> st_mtime
     clock |-> 0,
     used  |-> 0,
     lines |-> 0,
     parent |-> TRUE,                         \* the directory exists
     rewrites |-> 0]                          \* history: truncations and replacements

PExists(n) == pd.at[n] # 0

PData(n) == pd.data[pd.at[n]]

\* os.path.getmtime(f)
GetMtime(n) == pd.mtime[pd.at[n]]

\* glob.glob(self._pattern)
Glob == {n \in DirNames : Matches(n) /\ PExists(n)}

PStamps == {pd.clock, pd.clock + 1}

(***************************************************************************)
(* Pattern Tailer: WildcardFileWatcher and its _DirectoryWatchHandler.     *)
(* The worker thread runs run(); the shared directory observer's thread    *)
(* runs on_created and, in it, _on_new_file_created, which sleeps before   *)
(* it looks at the file.                                                   *)
(***************************************************************************)
\* No file has been created beside a current file and left alone since.
\* "*" in pattern or "?" in pattern
HasWildcard(p) == \E i \in 1..Len(p) : p[i] \in {"*", "?"}

\* WildcardFileWatcher.__init__: the fields are set, then InvalidPathError is
\* raised if the parent directory is missing or the pattern has no wildcard.
WildcardInit(st) ==
    IF ~pd.parent \/ ~HasWildcard(st.pattern) THEN [st EXCEPT !.wpc = "invalid"]
    ELSE [st EXCEPT !.wpc = "init"]

NoHot == [name |-> None, base |-> 0, sw |-> 0]

NewPattern(tailOnly) ==
    [running  |-> FALSE,     \* _running
     paused   |-> FALSE,     \* _paused
     current  |-> None,      \* _current_file
     handle   |-> NoHandle,  \* _file_handle
     tailOnly |-> tailOnly,  \* _tail_only
     tailLines |-> TailLines, \* _tail_lines
     pattern  |-> StarLog,   \* _pattern: its file name, wildcards apart
     armed    |-> FALSE,     \* _dir_handler is scheduled on the observer
     refs     |-> 0,         \* _DIRECTORY_OBSERVERS[directory]: reference count
     seen     |-> {},        \* _dir_handler._seen_files
     recent   |-> {},        \* names whose _last_event_time is less than 1 s ago
     evq      |-> <<>>,      \* creation events the observer has yet to dispatch
     cb       |-> None,      \* the file _on_new_file_created is sleeping on
     latest   |-> None,      \* run: latest_file
     wpc      |-> "init",    \* where the worker thread (run) is
     log      |-> <<>>,      \* history: the calls made on the LogManager
     emits    |-> <<>>,      \* history: the chunks emitted by new_lines
     errs     |-> 0,         \* history: error_occurred emissions
     dirty    |-> FALSE,     \* history: the directory changed since the last poll
     early    |-> FALSE,     \* history: the directory changed before the watch was armed
     written  |-> FALSE,     \* history: a file of the directory was modified
     switched |-> <<>>,      \* history: the file_switched emissions, <<old, new>>
     hot      |-> NoHot]     \* history: the newer file created beside the current one

\* _find_latest_matching_file: the values it can return (the sort leaves files
\* of equal mtime in the order glob listed them, which is arbitrary).
FindOldestMatchingFile ==
    IF Glob = {} THEN {None}
    ELSE {n \in Glob : \A m \in Glob : GetMtime(n) <= GetMtime(m)}
FindLatestMatchingFile ==
    IF Glob = {} THEN {None}
    ELSE {n \in Glob : \A m \in Glob : GetMtime(m) <= GetMtime(n)}

\* _cleanup_current_file
CleanupCurrentFile(st) == [st EXCEPT !.handle = NoHandle]

\* The content read on a switch, by mode.
SwitchContent(st, n) == ReadByMode(PData(n), st.tailOnly, st.tailLines)

\* _switch_to_file
SwitchToFile(st, new, initial) ==
    IF st.current # None /\ st.current = new THEN st
    ELSE LET a == IF st.current # None /\ ~initial
                  THEN PubInterrupted(CleanupCurrentFile(st), "Switching")
                  ELSE st
             b == [a EXCEPT !.current = new]
             c == SwitchContent(st, new)
             p == IF c = <<>> THEN b
                  ELSE IF st.paused THEN PubContent(b, c)
                  ELSE NewLines(PubContent(b, c), c)
             h == [p EXCEPT !.handle = [open |-> TRUE, ino |-> pd.at[new],
                                        pos |-> Len(PData(new))]]
         IN  IF ~PExists(new) THEN ErrorOccurred(b)
             ELSE IF initial THEN h
             ELSE [PubResumed(h) EXCEPT !.switched = Append(@, <<st.current, new>>)]

\* _read_new_content
ReadNewContent(st) ==
    LET d == pd.data[st.handle.ino]
        lines == SubSeq(d, st.handle.pos + 1, Len(d))
        p == PubContent([st EXCEPT !.handle.pos = Len(d)], lines)
    IN  IF ~st.handle.open \/ lines = <<>> THEN st
        ELSE IF st.paused THEN p
        ELSE NewLines(p, lines)

\* run, lines 163-181: one pass of the loop; found is what
\* _find_latest_matching_file returns if it is called.
LoopPass(st, found) ==
    LET gone == CleanupCurrentFile(PubInterrupted(st, "File deleted"))
        a == IF st.current # None /\ ~PExists(st.current)
             THEN (IF found # None THEN SwitchToFile(gone, found, FALSE) ELSE gone)
             ELSE st
    IN  IF a.handle.open /\ ~a.paused THEN ReadNewContent(a) ELSE a

\* _watch_directory
WatchDirectory(st) ==
    [st EXCEPT !.seen = IF st.current # None THEN {st.current} ELSE {},
               !.recent = {},
               !.armed = TRUE,
               !.refs = @ + 1]

\* _DirectoryWatchHandler.on_created, up to the call of the callback.
OnCreated(st, n) ==
    IF ~Matches(n) \/ n \in st.recent THEN st
    ELSE IF n \in st.seen THEN [st EXCEPT !.recent = @ \cup {n}]
    ELSE [st EXCEPT !.recent = @ \cup {n}, !.seen = @ \cup {n}, !.cb = n]

\* _on_new_file_created, after its sleep.
OnNewFileCreated(st) ==
    LET n == st.cb
        r == [st EXCEPT !.cb = None]
    IN  IF ~PExists(n) THEN r
        ELSE IF st.current = None THEN SwitchToFile(r, n, FALSE)
        ELSE IF ~PExists(st.current) THEN SwitchToFile(r, n, FALSE)
        ELSE IF GetMtime(n) > GetMtime(st.current) THEN SwitchToFile(r, n, FALSE)
        ELSE r

\* _cleanup.  unschedule is handed the handler, not the watch that schedule
\* returned: unscheduled is FALSE if the call raises, and then the except
\* clause of line 453 skips the release and the handler stays scheduled.
PatCleanup(st, unscheduled) ==
    IF st.armed /\ ~unscheduled THEN CleanupCurrentFile(st)
    ELSE [CleanupCurrentFile(st) EXCEPT !.armed = FALSE, !.evq = <<>>,
                                        !.refs = IF st.armed THEN @ - 1 ELSE @]

(***************************************************************************)
(* The shared watch of a directory: _DIRECTORY_OBSERVERS, guarded by        *)
(* _OBSERVER_LOCK, and the Pattern Tailers that watch the directory.  What  *)
(* a tailer does with its files is left to NewPattern and its operators;    *)
(* here run() is its start, _watch_directory, its loop and _cleanup.        *)
(***************************************************************************)
Watchers == {"w1", "w2", "w3"}

\* The directory is not in _DIRECTORY_OBSERVERS.
NoEntry == [obs |-> 0, count |-> 0]

NoRegistry ==
    [entry    |-> NoEntry,                             \* (observer, ref_count)
     alive    |-> [i \in 1..MaxObservers |-> FALSE],    \* observer.is_alive()
     handlers |-> [i \in 1..MaxObservers |-> {}],       \* whose handler it has scheduled
     made     |-> 0]                                   \* observers made so far

NewWatcher ==
    [running  |-> FALSE,   \* _running
     observer |-> 0,       \* _observer (0: None)
     handler  |-> FALSE,   \* _dir_handler is not None
     pc       |-> "idle",  \* where run() is
     held     |-> 0]       \* history: the observer acquired and not yet released

NoWatchers == [w \in Watchers |-> NewWatcher]

\* _watch_directory, lines 326-343, for tailer w; scheduled is FALSE if
\* observer.schedule raises (the directory cannot be watched).  The result is
\* the registry and the tailer afterwards.
AcquireWatch(r, t, w, scheduled) ==
    LET o  == IF r.entry.obs # 0 THEN r.entry.obs ELSE r.made + 1
        r1 == IF r.entry.obs # 0
              THEN [r EXCEPT !.entry.count = @ + 1]
              ELSE [r EXCEPT !.entry = [obs |-> o, count |-> 1],
                             !.alive[o] = TRUE, !.made = o]
        r2 == IF scheduled THEN [r1 EXCEPT !.handlers[o] = @ \cup {w}] ELSE r1
    IN  [reg |-> r2,
         w   |-> [t EXCEPT !.observer = o, !.handler = TRUE, !.held = o]]

\* The observer of tailer w has its handler among those it dispatches to.
IsScheduled(r, t, w) == t.observer # 0 /\ w \in r.handlers[t.observer]

\* _cleanup, lines 424-455, for tailer w.  unschedule is handed the handler, not
\* the watch that schedule returned: unscheduled is FALSE if the call raises,
\* and then the except clause of line 453 skips the release.
ReleaseWatch(r, t, w, unscheduled) ==
    LET o  == t.observer
        r1 == [r EXCEPT !.handlers[o] = @ \ {w}]
        e  == r1.entry
        r2 == IF e.obs = 0 THEN r1
              ELSE IF e.count <= 1
              THEN [r1 EXCEPT !.alive[e.obs] = FALSE, !.handlers[e.obs] = {},
                              !.entry = NoEntry]
              ELSE [r1 EXCEPT !.entry.count = @ - 1]
    IN  IF o = 0 THEN [reg |-> r, w |-> t]
        ELSE IF t.handler /\ ~unscheduled
        THEN [reg |-> r, w |-> [t EXCEPT !.observer = 0, !.held = 0]]
        ELSE [reg |-> r2, w |-> [t EXCEPT !.observer = 0, !.held = 0]]

(***************************************************************************)
(* Producers of the Hub specification: threads that publish on a key.      *)
(***************************************************************************)
\* The n-th chunk published: one or two lines, by the parity of n.
ProducerChunk(n) == [i \in 1..(1 + (n % 2)) |-> <<n, i>>]

ProducerPublish(k) ==
    /\ HubOps < MaxHubOps
    /\ Count("pub")
    /\ HubCalls(<<Sig("content", k, ProducerChunk(cnt.pub + 1), "")>>)
    /\ UNCHANGED <<subscribers, recv, raisers, escaped, procCount, subAt, snap, recvAt,
                   expected>>
    /\ UNCHANGED nonHub

ProducerInterrupted(k) ==
    /\ HubOps < MaxHubOps
    /\ Count("evt")
    /\ HubCalls(<<Sig("interrupted", k, <<>>, "File deleted")>>)
    /\ UNCHANGED <<subscribers, recv, raisers, escaped, procCount, subAt, snap, recvAt,
                   expected>>
    /\ UNCHANGED nonHub

ProducerResumed(k) ==
    /\ HubOps < MaxHubOps
    /\ Count("evt")
    /\ HubCalls(<<Sig("resumed", k, <<>>, "")>>)
    /\ UNCHANGED <<subscribers, recv, raisers, escaped, procCount, subAt, snap, recvAt,
                   expected>>
    /\ UNCHANGED nonHub

ProducerClear(k) ==
    /\ HubOps < MaxHubOps
    /\ Count("evt")
    /\ HubCalls(<<Sig("clear", k, <<>>, "")>>)
    /\ UNCHANGED <<subscribers, recv, raisers, escaped, procCount, subAt, snap, recvAt,
                   expected>>
    /\ UNCHANGED nonHub

\* The threads that enter the Hub: the GUI thread, which owns the LogManager
\* and runs its slots, and a tailer's worker thread.
Threads == {"gui", "wrk"}

\* A thread outside the Hub's methods.
Outside == [m |-> "idle", pc |-> 0, c |-> <<>>, subs |-> <<>>]

\* _lock = threading.RLock(), not held.
NoLock ==
    [owner |-> None,                       \* the thread holding _lock
     th    |-> [t \in Threads |-> Outside], \* method, position, content, local list
     last  |-> [op |-> "none", held |-> FALSE, m |-> "idle"]]
                                            \* history: what the last step touched

\* No file source: the tailers of a specification that has none are constructed
\* and started by the orchestrator directly.
NoProvider ==
    [running |-> FALSE,  \* LogProvider._running
     watcher |-> FALSE,  \* _watcher is not None
     wildcard |-> FALSE, \* _is_wildcard
     tailOnly |-> FALSE, \* config.mode == ProviderMode.TAIL_ONLY
     pc      |-> "idle", \* where the orchestrator's thread is in stop()
     made    |-> 0,      \* history: watchers constructed
     starts  |-> 0,      \* history: calls of start()
     stops   |-> 0]      \* history: calls of stop()

NoCounts == [pub |-> 0, evt |-> 0, sub |-> 0, reg |-> 0, env |-> 0,
             dup |-> 0, full |-> 0, nop |-> 0]

HubStart(regs, viewers) ==
    /\ buffers = regs
    /\ subscribers = viewers
    /\ sigq = <<>>
    /\ recv = [s \in Subs |-> <<>>]
    /\ escaped = FALSE
    /\ pubSeq = [k \in Keys |-> IF regs[k].lines = <<>> THEN <<>> ELSE <<regs[k].lines>>]
    /\ procCount = [k \in Keys |-> Len(pubSeq[k])]
    /\ bufBase = [k \in Keys |-> 0]
    /\ subAt = [p \in Keys \X Subs |-> IF p[2] \in Range(viewers[p[1]]) THEN 0 ELSE -1]
    /\ snap = [p \in Keys \X Subs |-> <<>>]
    /\ recvAt = [p \in Keys \X Subs |-> 0]
    /\ expected = [s \in Subs |-> <<>>]

\* The orchestrator has registered k1 and k2; k2 already holds a line.
InitHub ==
    /\ \E max \in {SmallCap, DefaultMaxLines} :
          HubStart([k \in Keys |-> IF k \in OpKeys THEN NewBuffer(max)
                                   ELSE BufAppend(NewBuffer(max), <<<<0, 0>>>>)],
                    [k \in Keys |-> <<>>])
    /\ raisers \in SUBSET Subs
    /\ cnt = NoCounts
    /\ fs = NoFiles
    /\ tl = NewTailer(FALSE)
    /\ pd = NoDir
    /\ pt = NewPattern(FALSE)
    /\ reg = NoRegistry
    /\ ws = NoWatchers
    /\ lk = NoLock
    /\ fp = NoProvider

NextHub ==
    \/ \E k \in OpKeys, max \in {SmallCap, DefaultMaxLines} : RegisterLog(k, max)
    \/ \E k \in OpKeys : UnregisterLog(k)
    \/ \E k \in OpKeys, s \in Subs : Subscribe(k, s)
    \/ \E k \in OpKeys, s \in Subs : Unsubscribe(k, s)
    \/ \E k \in OpKeys : ProducerPublish(k)
    \/ \E k \in OpKeys : ProducerInterrupted(k)
    \/ \E k \in OpKeys : ProducerResumed(k)
    \/ \E k \in OpKeys : ProducerClear(k)
    \/ HubProcess

SpecHub == InitHub /\ [][NextHub]_vars

\* _on_file_created: stop the creation observer, publish, start tailing.
OnFileCreated(st) ==
    [PubResumed([st EXCEPT !.obs = "none", !.evq = <<>>]) EXCEPT !.opc = "begin"]

\* resume
ResumeTailer(st) ==
    IF st.buffer = <<>> THEN [st EXCEPT !.paused = FALSE]
    ELSE NewLines([st EXCEPT !.paused = FALSE, !.buffer = <<>>], st.buffer)

\* A step of one of the tailer's threads: its new state, and the calls it made
\* on the LogManager in that step.
TailStep(st) ==
    /\ tl' = st
    /\ HubCalls(SubSeq(st.log, Len(tl.log) + 1, Len(st.log)))
    /\ UNCHANGED <<fs, cnt, patVars, regVars, subscribers, recv, raisers, escaped, procCount,
                   subAt, snap, recvAt, expected>>

\* run, lines 117-128
WRun ==
    /\ tl.wpc = "init"
    /\ TailStep(RunStart(tl))

WArm == tl.wpc = "arm" /\ TailStep(RunArm(tl))

WBegin == tl.wpc = "begin" /\ TailStep(StartTailingRead(tl, "w"))

WOpen == tl.wpc = "open" /\ TailStep(StartTailingOpen(tl, "w"))

WStat == tl.wpc = "stat" /\ TailStep(StartTailingStat(tl, "w"))

\* run, lines 131-138: a reconciliation tick.
WTick ==
    /\ tl.wpc = "loop"
    /\ tl.running
    /\ TailStep([ValidateFileState(tl) EXCEPT !.tickBit = ~@, !.truncPending = FALSE])

WReread == tl.wpc = "reread" /\ TailStep(ReloadRead(tl))

WReopen == tl.wpc = "reopen" /\ TailStep(ReloadReopen(tl))

\* run, lines 143-145: the loop ends once stop() was called.
WExit ==
    /\ tl.wpc = "loop"
    /\ ~tl.running
    /\ TailStep([Cleanup(tl) EXCEPT !.wpc = "done"])

\* _FileCreationHandler.on_created, on the creation observer's thread.
OCreated ==
    /\ tl.obs = "create"
    /\ tl.evq # <<>>
    /\ Head(tl.evq) = "cre"
    /\ tl.opc = "idle"
    /\ TailStep(OnFileCreated(tl))

OBegin == tl.opc = "begin" /\ TailStep(StartTailingRead(tl, "o"))

OOpen == tl.opc = "open" /\ TailStep(StartTailingOpen(tl, "o"))

OStat == tl.opc = "stat" /\ TailStep(StartTailingStat(tl, "o"))

\* _FileTailHandler.on_modified, on the tail observer's thread.
OModified ==
    /\ tl.obs = "tail"
    /\ tl.evq # <<>>
    /\ Head(tl.evq) = "mod"
    /\ TailStep(OnFileModified([tl EXCEPT !.evq = Tail(@)]))

\* _FileTailHandler.on_deleted and on_moved, on the tail observer's thread.
ODeleted ==
    /\ tl.obs = "tail"
    /\ tl.evq # <<>>
    /\ Head(tl.evq) = "del"
    /\ TailStep(OnFileDeleted([tl EXCEPT !.evq = Tail(@)]))

\* The Tailing state: a live handle and a fingerprint, both of the file at the
\* path, and no start sequence or reload under way.
Tailing ==
    /\ tl.running /\ tl.wpc = "loop" /\ tl.opc = "idle"
    /\ tl.handle.open /\ tl.last.known
    /\ Exists /\ tl.handle.ino = fs.ino /\ tl.last.inode = fs.ino

\* The orchestrator's thread calls pause(), resume() and stop().
Pause ==
    /\ cnt.env < MaxTailOps
    /\ ~tl.paused
    /\ tl.wpc # "done"
    /\ Count("env")
    /\ tl' = [tl EXCEPT !.paused = TRUE, !.pauseMark = fs.lines, !.pauseTailing = Tailing]
    /\ UNCHANGED <<fs, patVars, regVars, hubVars, hubHist>>

Resume ==
    /\ tl.paused
    /\ tl' = ResumeTailer(tl)
    /\ UNCHANGED <<fs, cnt, patVars, regVars, hubVars, hubHist>>

Stop ==
    /\ cnt.env < MaxTailOps
    /\ tl.running
    /\ Count("env")
    /\ tl' = [tl EXCEPT !.running = FALSE]
    /\ UNCHANGED <<fs, patVars, regVars, hubVars, hubHist>>

(***************************************************************************)
(* What other programs do to the file.  The observer that is running       *)
(* queues the event it is told of: a modification or deletion of the path  *)
(* for the tail handler, a creation for the creation handler.  Renaming    *)
(* another file over the path is a move whose source is not the path, and  *)
(* neither handler acts on it.                                             *)
(***************************************************************************)
Notify(st, e) ==
    IF \/ e \in {"mod", "del"} /\ st.obs = "tail"
       \/ e = "cre" /\ st.obs = "create"
    THEN [st EXCEPT !.evq = IF @ # <<>> /\ @[Len(@)] = e THEN @ ELSE Append(@, e)]
    ELSE st

FsStep(newfs, e) ==
    /\ cnt.env < MaxTailOps
    /\ Count("env")
    /\ fs' = newfs
    /\ tl' = [Notify(tl, e) EXCEPT !.truncPending =
                 @ \/ (Tailing /\ Len(newfs.data[fs.ino]) < Len(FileData))]
    /\ UNCHANGED <<patVars, regVars, hubVars, hubHist>>

FsAppend ==
    /\ Exists
    /\ \E t \in Stamps :
          FsStep([fs EXCEPT !.data[fs.ino] = Append(@, <<fs.ino, fs.lines + 1>>),
                            !.lines = @ + 1, !.mtime[fs.ino] = t, !.clock = t], "mod")

FsTruncate ==
    /\ Exists
    /\ \E t \in Stamps, n \in 0..(Len(FileData) - 1) :
          FsStep([fs EXCEPT !.data[fs.ino] = SubSeq(@, 1, n),
                            !.mtime[fs.ino] = t, !.clock = t,
                            !.truncs = @ + 1], "mod")

FsDelete == Exists /\ FsStep([fs EXCEPT !.ino = 0, !.dels = @ + 1], "del")

FsCreate ==
    /\ ~Exists
    /\ \E t \in Stamps :
          FsStep([fs EXCEPT !.ino = fs.used + 1, !.used = @ + 1,
                            !.mtime[fs.used + 1] = t, !.clock = t], "cre")

\* Another file, holding one line, is renamed over the path.
FsReplace ==
    /\ Exists
    /\ \E t \in Stamps :
          FsStep([fs EXCEPT !.ino = fs.used + 1, !.used = @ + 1,
                            !.data[fs.used + 1] = << <<fs.used + 1, fs.lines + 1>> >>,
                            !.lines = @ + 1,
                            !.mtime[fs.used + 1] = t, !.clock = t], "none")

\* A file of n lines, created before the tailer.
FileWith(n) ==
    [NoFiles EXCEPT !.ino = 1, !.used = 1, !.data[1] = [i \in 1..n |-> <<1, i>>],
                    !.lines = n, !.mtime[1] = 1, !.clock = 1]

\* The orchestrator has registered the tailer's key and subscribed its viewer;
\* the file is absent or has up to InitLines lines; the tailer is constructed
\* in either mode and not yet started.
InitTail ==
    /\ HubStart([k \in Keys |-> IF k = PathKey THEN NewBuffer(DefaultMaxLines)
                                ELSE BufAppend(NewBuffer(DefaultMaxLines), <<<<0, 0>>>>)],
                [k \in Keys |-> IF k = PathKey THEN <<Viewer>> ELSE <<>>])
    /\ raisers = {}
    /\ cnt = NoCounts
    /\ fs \in {NoFiles} \cup {FileWith(n) : n \in 0..InitLines}
    /\ tl \in {NewTailer(m) : m \in BOOLEAN}
    /\ pd = NoDir
    /\ pt = NewPattern(FALSE)
    /\ reg = NoRegistry
    /\ ws = NoWatchers
    /\ lk = NoLock
    /\ fp = NoProvider

NextTail ==
    \/ WRun \/ WArm \/ WBegin \/ WOpen \/ WStat \/ WTick \/ WReread \/ WReopen \/ WExit
    \/ OCreated \/ OBegin \/ OOpen \/ OStat \/ OModified \/ ODeleted
    \/ Pause \/ Resume \/ Stop
    \/ FsAppend \/ FsTruncate \/ FsDelete \/ FsCreate \/ FsReplace
    \/ HubProcess

SpecTail == InitTail /\ [][NextTail]_vars

(***************************************************************************)
(* Steps of the Pattern Tailer and of its directory                        *)
(***************************************************************************)
PatStep(st) ==
    /\ pt' = st
    /\ HubCalls(SubSeq(st.log, Len(pt.log) + 1, Len(st.log)))
    /\ UNCHANGED <<pd, cnt, tailVars, regVars, subscribers, recv, raisers, escaped, procCount,
                   subAt, snap, recvAt, expected>>

\* run, lines 147-157: find the initial file.
PRun ==
    /\ pt.wpc = "init"
    /\ \E f \in FindLatestMatchingFile :
          PatStep([pt EXCEPT !.running = TRUE, !.latest = f,
                             !.wpc = IF f # None THEN "switch" ELSE "watch"])

\* run, line 155: the initial switch.
PInitialSwitch ==
    /\ pt.wpc = "switch"
    /\ PatStep([SwitchToFile(pt, pt.latest, TRUE) EXCEPT !.wpc = "watch"])

\* run, line 160
PWatch ==
    /\ pt.wpc = "watch"
    /\ PatStep([WatchDirectory(pt) EXCEPT !.wpc = "loop"])

\* run, lines 163-181.  A pass that publishes is taken only while the tailer has
\* made fewer than MaxPatCalls calls on the LogManager.
PLoop ==
    /\ pt.wpc = "loop"
    /\ pt.running
    /\ \E f \in FindLatestMatchingFile :
          /\ Len(LoopPass(pt, f).log) <= MaxPatCalls
          /\ PatStep([LoopPass(pt, f) EXCEPT !.dirty = FALSE])

\* run, lines 186-187
PExit ==
    /\ pt.wpc = "loop"
    /\ ~pt.running
    /\ \E unscheduled \in BOOLEAN :
          PatStep([PatCleanup(pt, unscheduled) EXCEPT !.wpc = "done"])

\* The observer's thread dispatches the oldest creation event.
PCreated ==
    /\ pt.armed
    /\ pt.evq # <<>>
    /\ pt.cb = None
    /\ PatStep(OnCreated([pt EXCEPT !.evq = Tail(@)], Head(pt.evq)))

\* The callback wakes from its sleep.
PCallback ==
    /\ pt.cb # None
    /\ PatStep(OnNewFileCreated(pt))

\* More than a second passes without a creation event.
PSecondPasses ==
    /\ pt.recent # {}
    /\ pt' = [pt EXCEPT !.recent = {}]
    /\ UNCHANGED <<pd, cnt, tailVars, regVars, hubVars, hubHist>>

PPause ==
    /\ cnt.env < MaxPatOps
    /\ ~pt.paused
    /\ pt.wpc # "done"
    /\ Count("env")
    /\ pt' = [pt EXCEPT !.paused = TRUE]
    /\ UNCHANGED <<pd, tailVars, regVars, hubVars, hubHist>>

PResume ==
    /\ pt.paused
    /\ pt' = [pt EXCEPT !.paused = FALSE]
    /\ UNCHANGED <<pd, cnt, tailVars, regVars, hubVars, hubHist>>

PStop ==
    /\ cnt.env < MaxPatOps
    /\ pt.running
    /\ Count("env")
    /\ pt' = [pt EXCEPT !.running = FALSE]
    /\ UNCHANGED <<pd, tailVars, regVars, hubVars, hubHist>>

\* The tailer is in its loop on an existing current file that it holds open,
\* with its handler scheduled and no notification pending.
Settled ==
    /\ pt.running /\ pt.wpc = "loop" /\ pt.armed
    /\ pt.evq = <<>> /\ pt.cb = None
    /\ pt.current # None /\ PExists(pt.current)
    /\ pt.handle.open /\ pt.handle.ino = pd.at[pt.current]

\* A change of the directory; the creation notifications are queued for the
\* handler if it is scheduled.
DirStep(newpd, created) ==
    /\ cnt.env < MaxPatOps
    /\ Count("env")
    /\ pd' = newpd
    /\ pt' = [pt EXCEPT !.dirty = TRUE,
                        !.early = @ \/ ~pt.armed,
                        !.written = @ \/ newpd.lines # pd.lines,
                        !.hot = IF created # <<>> /\ Settled /\ Matches(created[1])
                                   /\ newpd.clock > GetMtime(pt.current)
                                THEN [name |-> created[1], base |-> Len(pt.log),
                                      sw |-> Len(pt.switched)]
                                ELSE NoHot,
                        !.evq = IF pt.armed THEN @ \o created ELSE @]
    /\ UNCHANGED <<tailVars, regVars, hubVars, hubHist>>

DirCreate(n) ==
    /\ ~PExists(n)
    /\ \E t \in PStamps, k \in 1..MaxNotify :
          DirStep([pd EXCEPT !.at[n] = pd.used + 1, !.used = @ + 1,
                             !.mtime[pd.used + 1] = t, !.clock = t],
                  [i \in 1..k |-> n])

DirAppend(n) ==
    /\ PExists(n)
    /\ \E t \in PStamps :
          DirStep([pd EXCEPT !.data[pd.at[n]] = Append(@, <<pd.at[n], pd.lines + 1>>),
                             !.lines = @ + 1, !.mtime[pd.at[n]] = t, !.clock = t], <<>>)

DirDelete(n) == PExists(n) /\ DirStep([pd EXCEPT !.at[n] = 0], <<>>)

\* The directory after the files named in order were written, one after the
\* other, each with InitLines lines.
RECURSIVE DirWith(_)
DirWith(order) ==
    IF order = <<>> THEN NoDir
    ELSE LET d == DirWith(SubSeq(order, 1, Len(order) - 1))
             n == order[Len(order)]
             i == d.used + 1
         IN  [d EXCEPT !.at[n] = i, !.used = i,
                       !.data[i] = [j \in 1..InitLines |-> <<i, d.lines + j>>],
                       !.lines = @ + InitLines,
                       !.mtime[i] = d.clock + 1, !.clock = @ + 1]

InitPat ==
    /\ HubStart([k \in Keys |-> IF k = PathKey THEN NewBuffer(DefaultMaxLines)
                                ELSE BufAppend(NewBuffer(DefaultMaxLines), <<<<0, 0>>>>)],
                [k \in Keys |-> IF k = PathKey THEN <<Viewer>> ELSE <<>>])
    /\ raisers = {}
    /\ cnt = NoCounts
    /\ fs = NoFiles
    /\ tl = NewTailer(FALSE)
    /\ pd \in {DirWith(o) : o \in {<<>>, <<"a.log">>, <<"a.log", "b.log">>,
                                   <<"b.log", "a.log">>}}
    /\ pt \in {NewPattern(m) : m \in BOOLEAN}
    /\ reg = NoRegistry
    /\ ws = NoWatchers
    /\ lk = NoLock
    /\ fp = NoProvider

NextPat ==
    \/ PRun \/ PInitialSwitch \/ PWatch \/ PLoop \/ PExit
    \/ PCreated \/ PCallback \/ PSecondPasses
    \/ PPause \/ PResume \/ PStop
    \/ \E n \in DirNames : DirCreate(n)
    \/ \E n \in DirNames : DirAppend(n)
    \/ \E n \in DirNames : DirDelete(n)
    \/ HubProcess

SpecPat == InitPat /\ [][NextPat]_vars




(***************************************************************************)
(* Properties of the Ingestion Hub                                         *)
(***************************************************************************)
\* The content callbacks made on s for key k since s subscribed to k, in order.
ContentSince(k, s) ==
    LET since == SubSeq(recv[s], recvAt[<<k, s>>] + 1, Len(recv[s]))
        mine  == SelectSeq(since, LAMBDA n : n.sig = "content" /\ n.key = k)
    IN  [i \in 1..Len(mine) |-> mine[i].content]

\* The chunks of key k still queued, in queue order.
QueuedContent(k) ==
    LET mine == SelectSeq(sigq, LAMBDA n : n.sig = "content" /\ n.key = k)
    IN  [i \in 1..Len(mine) |-> mine[i].content]

Handled(k, from) == SubSeq(pubSeq[k], from + 1, procCount[k])

\* C2: a subscriber of a key has received, since it subscribed, the buffer
\* content as of its subscription exactly once (one catch-up call, none when the
\* buffer was empty) and then every chunk handled since, each exactly once, in
\* publish order; the chunks not yet handled are still queued, so none is lost.
C2_CatchUpThenLive ==
    \A k \in Keys : \A s \in Subs :
        subAt[<<k, s>>] >= 0 =>
            /\ ContentSince(k, s) =
                  (IF snap[<<k, s>>] = <<>> THEN <<>> ELSE <<snap[<<k, s>>]>>)
                  \o Handled(k, subAt[<<k, s>>])
            /\ procCount[k] + Len(QueuedContent(k)) = Len(pubSeq[k])

\* A subscriber that got [L1, L2, ...] as catch-up and a later chunk live.
C2_Witness ==
    \E k \in Keys : \E s \in Subs :
        /\ subAt[<<k, s>>] >= 0
        /\ Len(snap[<<k, s>>]) >= 2
        /\ procCount[k] > subAt[<<k, s>>]
        /\ Len(ContentSince(k, s)) >= 2

\* C5: for each key, the chunks are handled in the order in which they were
\* published: a subscriber subscribed since before the first publish has received
\* exactly the handled chunks in publish order, the queue holds the rest in
\* publish order, and the buffer holds the lines handled since it was created or
\* cleared, in that order (the most recent `max` of them).
C5_PerKeyOrder ==
    \A k \in Keys :
        /\ QueuedContent(k) = SubSeq(pubSeq[k], procCount[k] + 1, Len(pubSeq[k]))
        /\ \A s \in Subs :
              (subAt[<<k, s>>] = 0 /\ snap[<<k, s>>] = <<>>) =>
                  ContentSince(k, s) = SubSeq(pubSeq[k], 1, procCount[k])
        /\ k \in DOMAIN buffers =>
              buffers[k].lines = LastN(Flatten(Handled(k, bufBase[k])), buffers[k].max)

\* Three chunks published on a key, all handled, received by a subscriber that
\* was subscribed throughout.
C5_Witness ==
    \E k \in Keys : \E s \in Subs :
        /\ subAt[<<k, s>>] = 0
        /\ Len(pubSeq[k]) >= 3
        /\ procCount[k] = Len(pubSeq[k])
        /\ Len(ContentSince(k, s)) >= 3

\* C6: a raising callback never lets an exception leave the Hub's slot, every
\* subscriber has received exactly the notifications issued while it was
\* subscribed (content, cleared, interrupted, resumed), each once, and the
\* buffer holds every handled chunk.
C6_SubscriberErrorsIsolated ==
    /\ escaped = FALSE
    /\ \A s \in Subs : recv[s] = expected[s]
    /\ \A k \in DOMAIN buffers :
          buffers[k].lines = LastN(Flatten(Handled(k, bufBase[k])), buffers[k].max)

\* A raising subscriber listed before a well-behaved one, both notified of a
\* chunk that is in the buffer.
C6_Witness ==
    \E k \in DOMAIN subscribers : \E i, j \in 1..Len(subscribers[k]) :
        /\ i < j
        /\ subscribers[k][i] \in raisers
        /\ subscribers[k][j] \notin raisers
        /\ Len(recv[subscribers[k][j]]) > 0
        /\ recv[subscribers[k][j]][Len(recv[subscribers[k][j]])].sig = "content"
        /\ recv[subscribers[k][j]][Len(recv[subscribers[k][j]])]
              \in Range(recv[subscribers[k][i]])
        /\ procCount[k] > bufBase[k]

(***************************************************************************)
(* Properties of the Single-File Tailer                                    *)
(***************************************************************************)
\* The lines of the content chunks among the calls, in call order.
ContentLines(calls) ==
    LET cs == SelectSeq(calls, LAMBDA c : c.sig = "content")
    IN  Flatten([i \in 1..Len(cs) |-> cs[i].content])

\* The file at the path is the one the tailer was constructed on, and nothing
\* but appends has been done to it: every line ever written is in it.
AppendOnly == fs.ino = 1 /\ fs.used = 1 /\ fs.lines = Len(fs.data[1])

\* C1: a running tailer in FullHistory mode on a file that is only appended to
\* publishes every appended line once, in order, with no gap and no duplicate:
\* what it has published is at every moment a prefix of the file.
C1_AppendsPublishedOnce ==
    (tl.running /\ ~tl.tailOnly /\ AppendOnly) =>
        IsPrefix(ContentLines(tl.log), FileData)

\* C3: once a reload of a replaced file is complete and the Hub has handled every
\* queued signal, the Hub buffer of the key holds only separator lines and lines
\* of the new file.
C3_NoOldContentAfterReload ==
    (/\ tl.reloaded # 0 /\ tl.reread = tl.reloaded /\ fs.ino = tl.reloaded
     /\ tl.wpc = "loop" /\ tl.opc = "idle" /\ sigq = <<>>) =>
        \A i \in 1..Len(buffers[PathKey].lines) :
            buffers[PathKey].lines[i][1] \in {0, tl.reloaded}

\* The reconciliation tick's answer to a truncation: the interruption/resumption
\* pair, the separator, and the content of the live handle from offset 0.
RereadFromStart ==
    LET d == fs.data[tl.handle.ino]
    IN  /\ tl'.log = tl.log \o
                     << Sig("interrupted", PathKey, <<>>, "File truncated/rotated"),
                        Sig("resumed", PathKey, <<>>, ""),
                        Sig("content", PathKey, Separator, "") >> \o
                     (IF d = <<>> THEN <<>> ELSE <<Sig("content", PathKey, d, "")>>)
        /\ tl'.handle = [tl.handle EXCEPT !.pos = Len(d)]
        /\ tl'.last = FromPath

\* A step that is a reconciliation tick.
IsTick == tl'.tickBit # tl.tickBit

\* C4 (as amended): a reconciliation tick that finds the file, with the identity
\* last recorded, smaller than the size last recorded publishes an interruption
\* and a resumption, then the separator, and re-reads the live handle from offset
\* 0, publishing what it reads, and records the file's state.
C4_TickRereadsShrunkFile ==
    [][(/\ IsTick
        /\ tl.handle.open /\ Exists /\ tl.last.known
        /\ tl.last.inode = fs.ino /\ Len(FileData) < tl.last.size) => RereadFromStart]_vars

\* A tick has answered a truncation and re-read a non-empty file from its start.
C4_Witness ==
    \E i \in 1..(Len(tl.log) - 3) :
        /\ tl.log[i] = Sig("interrupted", PathKey, <<>>, "File truncated/rotated")
        /\ tl.log[i + 1] = Sig("resumed", PathKey, <<>>, "")
        /\ tl.log[i + 2] = Sig("content", PathKey, Separator, "")
        /\ tl.log[i + 3].sig = "content"
        /\ tl.log[i + 3].content[1][1] = 1

\* C4 (as stated): after any truncations and appends done to the file while the
\* tailer is Tailing, the next reconciliation tick publishes the pair and
\* re-reads from offset 0, so that the content the file then has, some of it
\* not published before, is published from its beginning.
C4_EveryTruncationCaughtByNextTick ==
    [][(/\ IsTick /\ Tailing /\ tl.truncPending
        /\ \E i \in 1..Len(FileData) : FileData[i] \notin Range(ContentLines(tl.log)))
          => RereadFromStart]_vars

\* C7: while a tailer that was paused when Tailing stays paused, its viewer is
\* delivered no content appended since pause() was called.
C7_NoDeliveryWhilePaused ==
    (tl.paused /\ tl.pauseTailing /\ AppendOnly) =>
        \A i \in 1..Len(recv[Viewer]) :
            recv[Viewer][i].sig = "content" =>
                \A j \in 1..Len(recv[Viewer][i].content) :
                    recv[Viewer][i].content[j][2] <= tl.pauseMark

\* C8: every chunk the tailer has read or generated is in its emitted stream or,
\* while it is paused, in its pending buffer, in read order.
C8_ReadWhilePausedIsKept ==
    ContentLines(tl.log) = Flatten(tl.emits) \o tl.buffer

(***************************************************************************)
(* The initial read of both tailers, over file lengths and tail limits     *)
(***************************************************************************)
\* The directory with the one matching file a.log of n lines.
DirOf(n) ==
    [NoDir EXCEPT !.at["a.log"] = 1, !.used = 1,
                  !.data[1] = [i \in 1..n |-> <<1, i>>],
                  !.lines = n, !.mtime[1] = 1, !.clock = 1]

\* A Single-File Tailer and a Pattern Tailer constructed with the same mode and
\* limit (at least 1: ProviderCapabilities rejects a smaller tail_line_limit)
\* on a file of n lines, neither started yet.
InitRead ==
    /\ HubStart([k \in Keys |-> NewBuffer(DefaultMaxLines)],
                [k \in Keys |-> IF k = PathKey THEN <<Viewer>> ELSE <<>>])
    /\ raisers = {}
    /\ cnt = NoCounts
    /\ reg = NoRegistry
    /\ ws = NoWatchers
    /\ lk = NoLock
    /\ fp = NoProvider
    /\ \E n \in 0..MaxFileLines, m \in BOOLEAN, k \in 1..MaxLimit :
          /\ fs = FileWith(n)
          /\ tl = [NewTailer(m) EXCEPT !.tailLines = k]
          /\ pd = DirOf(n)
          /\ pt = [NewPattern(m) EXCEPT !.tailLines = k]

NextRead == WRun \/ WBegin \/ PRun \/ PInitialSwitch \/ HubProcess

SpecRead == InitRead /\ [][NextRead]_vars

(***************************************************************************)
(* Construction of the tailers, on sources valid and invalid               *)
(***************************************************************************)
\* FileWatcherThread(file_path, ...)
FConstruct ==
    /\ tl.wpc = "new"
    /\ tl' = FileWatcherInit(tl)
    /\ UNCHANGED <<fs, cnt, patVars, regVars, hubVars, hubHist>>

\* WildcardFileWatcher(pattern, ...)
PConstruct ==
    /\ pt.wpc = "new"
    /\ pt' = WildcardInit(pt)
    /\ UNCHANGED <<pd, cnt, tailVars, regVars, hubVars, hubHist>>

\* The path of the Single-File Tailer: no parent directory, a directory
\* without the file, or the file with up to InitLines lines; the pattern of the
\* Pattern Tailer: any of Patterns, in a directory that is missing, empty, or
\* holds a.log.  Neither tailer is constructed yet.
InitNew ==
    /\ HubStart([k \in Keys |-> NewBuffer(DefaultMaxLines)],
                [k \in Keys |-> IF k = PathKey THEN <<Viewer>> ELSE <<>>])
    /\ raisers = {}
    /\ cnt = NoCounts
    /\ reg = NoRegistry
    /\ ws = NoWatchers
    /\ lk = NoLock
    /\ fp = NoProvider
    /\ fs \in {[NoFiles EXCEPT !.parent = FALSE], NoFiles}
                \cup {FileWith(n) : n \in 0..InitLines}
    /\ tl \in {[NewTailer(m) EXCEPT !.wpc = "new"] : m \in BOOLEAN}
    /\ pd \in {[NoDir EXCEPT !.parent = FALSE], NoDir, DirWith(<<"a.log">>)}
    /\ pt \in {[NewPattern(FALSE) EXCEPT !.wpc = "new", !.pattern = p] : p \in Patterns}

NextNew ==
    \/ FConstruct \/ PConstruct \/ WRun \/ WArm \/ WBegin \/ PRun \/ PInitialSwitch

SpecNew == InitNew /\ [][NextNew]_vars

(***************************************************************************)
(* Steps of the Pattern Tailers that share the watch of one directory      *)
(***************************************************************************)
RegStep(w, res) ==
    /\ reg' = res.reg
    /\ ws' = [ws EXCEPT ![w] = res.w]
    /\ UNCHANGED <<hubVars, hubHist, tailVars, patVars, fp, lk>>

\* start(): run() begins, line 147.
RStart(w) ==
    /\ cnt.env < MaxRegOps
    /\ ws[w].pc \in {"idle", "done"}
    /\ Count("env")
    /\ RegStep(w, [reg |-> reg,
                   w |-> [ws[w] EXCEPT !.running = TRUE, !.pc = "watch"]])

\* run, lines 152-157, raises before _watch_directory is reached (getmtime of
\* a file deleted since glob listed it): on to finally.
RFindRaises(w) ==
    /\ ws[w].pc = "watch"
    /\ UNCHANGED cnt
    /\ RegStep(w, [reg |-> reg, w |-> [ws[w] EXCEPT !.pc = "cleanup"]])

\* run, line 160: _watch_directory.
RWatch(w) ==
    /\ ws[w].pc = "watch"
    /\ reg.entry.obs # 0 \/ reg.made < MaxObservers
    /\ UNCHANGED cnt
    /\ \E scheduled \in BOOLEAN :
          LET res == AcquireWatch(reg, ws[w], w, scheduled)
          IN  RegStep(w, [res EXCEPT !.w.pc = IF scheduled THEN "loop"
                                               ELSE "cleanup"])

\* stop()
RStop(w) ==
    /\ ws[w].running
    /\ ws[w].pc \in {"watch", "loop"}
    /\ UNCHANGED cnt
    /\ RegStep(w, [reg |-> reg, w |-> [ws[w] EXCEPT !.running = FALSE]])

\* run, lines 163 and 186-187: the loop ends, or an exception ended the try
\* block; _cleanup runs.
RExit(w) ==
    /\ \/ ws[w].pc = "loop" /\ ~ws[w].running
       \/ ws[w].pc = "cleanup"
    /\ UNCHANGED cnt
    /\ \E unscheduled \in {u \in BOOLEAN : u => IsScheduled(reg, ws[w], w)} :
          LET res == ReleaseWatch(reg, ws[w], w, unscheduled)
          IN  RegStep(w, [res EXCEPT !.w.pc = "done"])

InitReg ==
    /\ HubStart([k \in Keys |-> NewBuffer(DefaultMaxLines)], [k \in Keys |-> <<>>])
    /\ raisers = {}
    /\ cnt = NoCounts
    /\ fs = NoFiles
    /\ tl = NewTailer(FALSE)
    /\ pd = NoDir
    /\ pt = NewPattern(FALSE)
    /\ reg = NoRegistry
    /\ ws = NoWatchers
    /\ lk = NoLock
    /\ fp = NoProvider

NextReg ==
    \/ \E w \in Watchers : RStart(w)
    \/ \E w \in Watchers : RFindRaises(w)
    \/ \E w \in Watchers : RWatch(w)
    \/ \E w \in Watchers : RStop(w)
    \/ \E w \in Watchers : RExit(w)

SpecReg == InitReg /\ [][NextReg]_vars

(***************************************************************************)
(* Properties of the Pattern Tailer                                        *)
(***************************************************************************)
\* Running, in its loop, with every creation notification dispatched and handled
\* and a poll pass made since the directory last changed.
Quiescent ==
    /\ pt.running /\ pt.wpc = "loop"
    /\ pt.evq = <<>> /\ pt.cb = None
    /\ ~pt.dirty

\* C9: whenever the running Pattern Tailer is quiescent and some file matches the
\* pattern, its current file is a matching file of the greatest modification
\* time; stated here for the directories in which, since the watch was armed,
\* matching files were only created and deleted.
C9_CurrentIsNewestWhenQuiescent ==
    (Quiescent /\ ~pt.early /\ ~pt.written /\ Glob # {}) =>
        /\ pt.current \in Glob
        /\ \A m \in Glob : GetMtime(m) <= GetMtime(pt.current)

\* The calls that are interruption or resumption events.
StreamEvents(calls) == SelectSeq(calls, LAMBDA c : c.sig \in {"interrupted", "resumed"})

\* C10: on start with a matching file, run() selects a match of the greatest
\* modification time; the initial switch makes it the current file, publishes
\* the content it reads from it (all of it, or its last tail_lines lines in
\* tail-only mode) and opens it at its end; neither step publishes an
\* interruption or a resumption.
C10_InitialSelection ==
    [][/\ (pt.wpc = "init" /\ pt'.wpc # "init" /\ Glob # {}) =>
              /\ pt'.wpc = "switch"
              /\ pt'.latest \in Glob
              /\ \A m \in Glob : GetMtime(m) <= GetMtime(pt'.latest)
              /\ pt'.log = pt.log
       /\ (pt.wpc = "switch" /\ pt'.wpc # "switch") =>
              /\ pt'.current = pt.latest
              /\ StreamEvents(pt'.log) = <<>>
              /\ PExists(pt.latest) =>
                    LET d == PData(pt.latest)
                        c == IF pt.tailOnly /\ Len(d) > TailLines
                             THEN SubSeq(d, Len(d) - TailLines + 1, Len(d))
                             ELSE d
                    IN  /\ pt'.log = IF c = <<>> THEN pt.log
                                     ELSE Append(pt.log, Sig("content", PathKey, c, ""))
                        /\ pt'.handle = [open |-> TRUE, ino |-> pd.at[pt.latest],
                                         pos |-> Len(d)]
      ]_vars

\* The tailer started on two matching files of different age, took the newer
\* one, and has published its content and nothing else.
C10_Witness ==
    /\ pt.wpc \in {"watch", "loop"}
    /\ pt.current \in Glob
    /\ \E m \in Glob : GetMtime(m) < GetMtime(pt.current)
    /\ pt.log = <<Sig("content", PathKey, SwitchContent(pt, pt.current), "")>>
    /\ pt.log[1].content # <<>>
    /\ pt.handle.open

\* The signals of the interruption and resumption events in calls, in order.
EventSigs(calls) == [i \in 1..Len(StreamEvents(calls)) |-> StreamEvents(calls)[i].sig]

\* C11: with current file B, the creation of a matching file C of a greater
\* modification time causes exactly one hot switch to C, whatever number of
\* creation notifications is delivered for C and however they interleave with
\* the poll passes: never more than one file_switched follows the creation,
\* and once the notifications are handled and a poll pass is made, C is the
\* current file after one interruption, one resumption and one file_switched.
\* Stated for the directories that did not change before the watch was armed.
C11_OneHotSwitchPerNewerFile ==
    (pt.hot # NoHot /\ ~pt.early) =>
        /\ Len(pt.switched) <= pt.hot.sw + 1
        /\ Quiescent =>
              /\ pt.current = pt.hot.name
              /\ Len(pt.switched) = pt.hot.sw + 1
              /\ pt.switched[Len(pt.switched)][2] = pt.hot.name
              /\ EventSigs(SubSeq(pt.log, pt.hot.base + 1, Len(pt.log)))
                    = <<"interrupted", "resumed">>

(***************************************************************************)
(* Properties of the shared watch of a directory                           *)
(***************************************************************************)
\* The tailers that acquired the shared watch and have not run _cleanup since.
Holders == {w \in Watchers : ws[w].held # 0}

\* Tailer w leaves its loop and runs _cleanup in this step.
Stops(w) == ws[w].pc = "loop" /\ ws'[w].pc = "done"

\* C12: when several Pattern Tailers hold the shared watch of the directory,
\* the cleanup of one that was stopped lowers the reference count by exactly
\* one and leaves the same observer registered and alive; and the observer a
\* tailer holds is never stopped before that tailer has released it.
C12_StopReleasesOneReference ==
    [][/\ \A w \in Watchers :
             (Stops(w) /\ ws[w].held # 0 /\ Cardinality(Holders) > 1) =>
                 /\ reg'.entry.obs = reg.entry.obs
                 /\ reg'.entry.count = reg.entry.count - 1
                 /\ reg'.alive[reg.entry.obs]
       /\ \A w \in Watchers : ws'[w].held # 0 => reg'.alive[ws'[w].held]
      ]_vars

\* C13: once every Pattern Tailer that acquired the shared watch of the
\* directory has been stopped and has run its cleanup, the directory is not in
\* the registry and no observer made for it is alive; the next acquire makes
\* a new observer and registers it with count 1.
C13_LastReleaseRemovesObserver ==
    [][/\ (\E w \in Watchers : Stops(w)) /\ Holders' = {} =>
             /\ reg'.entry = NoEntry
             /\ \A i \in 1..MaxObservers : ~reg'.alive[i]
       /\ \A w \in Watchers :
             (Holders = {} /\ ws'[w].held # 0) =>
                 /\ reg'.made = reg.made + 1
                 /\ reg'.entry = [obs |-> reg'.made, count |-> 1]
                 /\ ws'[w].held = reg'.made
      ]_vars

(***************************************************************************)
(* Lifecycle events of the Single-File Tailer                              *)
(***************************************************************************)
\* C14: in what the Single-File Tailer publishes for its key, interruptions
\* and resumptions alternate, beginning with an interruption, and every
\* resumption comes with a separator chunk published between its interruption
\* and the call that follows the resumption.
C14_EventsPairedWithSeparator ==
    /\ \A i \in 1..Len(EventSigs(tl.log)) :
          EventSigs(tl.log)[i] = IF i % 2 = 1 THEN "interrupted" ELSE "resumed"
    /\ \A j \in 1..Len(tl.log) :
          tl.log[j].sig = "resumed" =>
              \E i \in 1..(j - 1) :
                  /\ tl.log[i].sig = "interrupted"
                  /\ \A m \in (i + 1)..(j - 1) : tl.log[m].sig # "interrupted"
                  /\ \E k \in (i + 1)..(j + 1) :
                        /\ k <= Len(tl.log)
                        /\ tl.log[k] = Sig("content", PathKey, Separator, "")

(***************************************************************************)
(* The initial content                                                     *)
(***************************************************************************)
\* The last min(Len(d), k) lines of d in file order if tailOnly, else d.
LastLines(d, tailOnly, k) ==
    LET m == IF tailOnly /\ k < Len(d) THEN k ELSE Len(d)
    IN  [i \in 1..m |-> d[Len(d) - m + i]]

\* C15: the initial content a tailer publishes for a file of n lines is, in
\* tail-only mode with limit K, exactly the last min(n, K) lines in file
\* order, and in full mode the whole file; it is published as one chunk, or
\* not at all if it is empty.  For the Single-File Tailer and the Pattern
\* Tailer.
C15_InitialContentByMode ==
    /\ tl.wpc = "open" =>
          LET c == LastLines(FileData, tl.tailOnly, tl.tailLines)
          IN  tl.log = IF c = <<>> THEN <<>> ELSE <<Sig("content", PathKey, c, "")>>
    /\ pt.wpc = "watch" =>
          LET c == LastLines(PData(pt.latest), pt.tailOnly, pt.tailLines)
          IN  pt.log = IF c = <<>> THEN <<>> ELSE <<Sig("content", PathKey, c, "")>>

\* Both tailers, in tail-only mode with limit 2 on a file of 5 lines, have
\* published its lines 4 and 5 and nothing else.
C15_Witness ==
    /\ tl.tailOnly /\ tl.tailLines = 2 /\ Len(FileData) = 5
    /\ tl.wpc = "open"
    /\ tl.log = <<Sig("content", PathKey, <<FileData[4], FileData[5]>>, "")>>
    /\ pt.tailOnly /\ pt.tailLines = 2 /\ Len(PData("a.log")) = 5
    /\ pt.wpc = "watch"
    /\ pt.log = <<Sig("content", PathKey, <<PData("a.log")[4], PData("a.log")[5]>>, "")>>

(***************************************************************************)
(* Properties of the buffers and of registration                           *)
(***************************************************************************)
\* C16: the buffer of a registered key holds at most its capacity N of lines,
\* and they are the last N (all, if fewer) of the lines the Hub has received
\* for the key since the buffer was made or cleared, in arrival order.  A line
\* is an element of splitlines(keepends=True) of a published chunk.
C16_BufferHoldsLastLines ==
    \A k \in DOMAIN buffers :
        LET all == Flatten(Handled(k, bufBase[k]))
            m   == IF Len(all) < buffers[k].max THEN Len(all) ELSE buffers[k].max
        IN  /\ Len(buffers[k].lines) <= buffers[k].max
            /\ buffers[k].lines = [i \in 1..m |-> all[Len(all) - m + i]]

\* A buffer of capacity SmallCap has received more lines than it holds, the
\* last of them in a chunk that evicted lines of two earlier chunks.
C16_Witness ==
    \E k \in DOMAIN buffers :
        LET hs == Handled(k, bufBase[k])
        IN  /\ buffers[k].max = SmallCap
            /\ Len(hs) >= 3
            /\ Len(Flatten(hs)) > SmallCap + 1
            /\ Len(buffers[k].lines) = SmallCap
            /\ buffers[k].lines = hs[Len(hs)]

\* C17: a registration of a key that is already registered changes nothing:
\* the key keeps its buffer with its content and capacity and its list of
\* subscribers, and nothing is emitted or delivered.
C17_RegisterTwiceIsNoOp ==
    [][cnt'.dup # cnt.dup =>
          /\ buffers' = buffers
          /\ subscribers' = subscribers
          /\ UNCHANGED <<sigq, recv, pubSeq, procCount>>
      ]_vars

\* A key that had buffered lines and a subscriber was registered again, with
\* another capacity, and still has both.
C17_Witness ==
    /\ cnt.full = 1
    /\ \E k \in OpKeys :
          /\ k \in DOMAIN buffers
          /\ buffers[k].lines # <<>>
          /\ subscribers[k] # <<>>

\* The notifications subscriber s has received for key k.
KeyNotes(r, s, k) == SelectSeq(r[s], LAMBDA n : n.key = k)

\* C18: a subscriber that has been unsubscribed from a key receives nothing
\* for it from then on, until it subscribes again; every signal of the key the
\* Hub handles is delivered to each of the key's subscribers of that moment;
\* and an unsubscription of a subscriber that is not subscribed changes
\* nothing.
C18_UnsubscribedGetsNothing ==
    [][/\ \A k \in Keys, s \in Subs :
             (subAt[<<k, s>>] = -1 /\ subAt'[<<k, s>>] = -1) =>
                 KeyNotes(recv', s, k) = KeyNotes(recv, s, k)
       /\ (sigq # <<>> /\ sigq' = Tail(sigq)) =>
             \A s \in Range(SubsOf(Head(sigq).key)) :
                 recv'[s] = Append(recv[s], Head(sigq))
       /\ cnt'.nop # cnt.nop => UNCHANGED <<hubVars, hubHist>>
      ]_vars

\* One subscriber was unsubscribed after it had received something; another
\* one, still subscribed, has since received a notification the first one did
\* not get; and an unsubscription of a subscriber not subscribed was made.
C18_Witness ==
    /\ cnt.nop = 1
    /\ \E k \in OpKeys, s \in Subs, t \in Subs :
          /\ subAt[<<k, s>>] = -1
          /\ recv[s] # <<>>
          /\ t \in Range(SubsOf(k))
          /\ recv[t] # <<>>
          /\ recv[t][Len(recv[t])] \notin Range(recv[s])

(***************************************************************************)
(* Termination of the Single-File Tailer                                   *)
(***************************************************************************)
\* C19: once the worker of a stopped Single-File Tailer has left its loop and
\* run its cleanup, the tailer holds no open file handle and no live
\* observer, whatever callbacks were in flight.
C19_StoppedHoldsNothing ==
    tl.wpc = "done" => ~tl.handle.open /\ tl.obs = "none"

(***************************************************************************)
(* Construction on an invalid source                                       *)
(***************************************************************************)
\* C20: the construction of a tailer on an invalid source (the parent
\* directory is missing; for a Pattern Tailer also a pattern without a
\* wildcard) raises at once: the tailer never leaves its constructor, so no
\* worker runs, nothing is published, no error is signalled later and no
\* watch is registered.  For the Single-File Tailer and the Pattern Tailer.
C20_InvalidSourceRaisesAtConstruction ==
    /\ (~fs.parent /\ tl.wpc # "new") =>
          /\ tl.wpc = "invalid"
          /\ ~tl.running /\ tl.log = <<>> /\ tl.errs = 0 /\ tl.obs = "none"
    /\ ((~pd.parent \/ ~HasWildcard(pt.pattern)) /\ pt.wpc # "new") =>
          /\ pt.wpc = "invalid"
          /\ ~pt.running /\ pt.log = <<>> /\ pt.errs = 0 /\ ~pt.armed

(***************************************************************************)
(* The Single-File Tailer on a file it is not allowed to read.  The file   *)
(* is unreadable whenever it exists, until its permissions are changed     *)
(* after the tailer was refused.                                           *)
(***************************************************************************)
Unreadable(f) == [f EXCEPT !.readable = FALSE]

\* chmod: the file becomes readable, after the tailer was refused it.
FsChmod ==
    /\ Exists /\ ~fs.readable
    /\ tl.denied > 0 \/ tl.errs > 0
    /\ cnt.env < MaxTailOps
    /\ Count("env")
    /\ fs' = [fs EXCEPT !.readable = TRUE]
    /\ UNCHANGED <<tl, patVars, regVars, hubVars, hubHist>>

InitDenied ==
    /\ HubStart([k \in Keys |-> IF k = PathKey THEN NewBuffer(DefaultMaxLines)
                                ELSE BufAppend(NewBuffer(DefaultMaxLines), <<<<0, 0>>>>)],
                [k \in Keys |-> IF k = PathKey THEN <<Viewer>> ELSE <<>>])
    /\ raisers = {}
    /\ cnt = NoCounts
    /\ fs \in {Unreadable(NoFiles)} \cup {Unreadable(FileWith(n)) : n \in 0..InitLines}
    /\ tl \in {NewTailer(m) : m \in BOOLEAN}
    /\ pd = NoDir
    /\ pt = NewPattern(FALSE)
    /\ reg = NoRegistry
    /\ ws = NoWatchers
    /\ lk = NoLock
    /\ fp = NoProvider

NextDenied ==
    \/ WRun \/ WArm \/ WBegin \/ WTick \/ WExit
    \/ OCreated \/ OBegin
    \/ Pause \/ Resume \/ Stop
    \/ FsAppend \/ FsDelete \/ FsCreate \/ FsChmod
    \/ HubProcess

SpecDenied == InitDenied /\ [][NextDenied]_vars

(***************************************************************************)
(* Access denied                                                           *)
(***************************************************************************)
\* C21: once _start_tailing has found the file unreadable, at start or in the
\* callback for the awaited file's creation, the tailer has emitted exactly
\* one error through error_occurred, has published no content, has made no
\* second attempt, and its worker has ended with the handle closed and no
\* observer left.
C21_AccessDeniedIsFatal ==
    tl.denied > 0 =>
        /\ tl.denied = 1
        /\ tl.errs = 1
        /\ ContentLines(tl.log) = <<>>
        /\ tl.wpc = "done" /\ ~tl.handle.open /\ tl.obs = "none"

(***************************************************************************)
(* Progress of the Single-File Tailer.  Its worker thread and its          *)
(* observers' threads are scheduled: a step one of them can take is        *)
(* eventually taken, the reconciliation tick included (the worker wakes    *)
(* every 100 ms), and the Hub's thread handles every queued signal.  What  *)
(* other programs and the orchestrator do is under no obligation.          *)
(***************************************************************************)
SpecTailLive ==
    /\ SpecTail
    /\ WF_vars(WRun) /\ WF_vars(WArm) /\ WF_vars(WBegin) /\ WF_vars(WOpen)
    /\ WF_vars(WStat) /\ WF_vars(WTick) /\ WF_vars(WReread) /\ WF_vars(WReopen)
    /\ WF_vars(WExit)
    /\ WF_vars(OCreated) /\ WF_vars(OBegin) /\ WF_vars(OOpen) /\ WF_vars(OStat)
    /\ WF_vars(OModified) /\ WF_vars(ODeleted)
    /\ WF_vars(HubProcess)

\* The AwaitingCreation state: the running tailer has no handle and waits for
\* the file, its creation watch armed or, in run() past the existence check,
\* about to be armed.
AwaitingCreation ==
    /\ tl.running /\ ~tl.handle.open /\ tl.opc = "idle"
    /\ (tl.wpc = "arm" \/ (tl.wpc = "loop" /\ tl.obs = "create"))

\* C22: a running tailer in AwaitingCreation whose file exists, and stays the
\* file at the path while the tailer runs, eventually reaches Tailing on it,
\* whenever the file was created: before or after the creation watch was
\* armed, at start or after a deletion.
C22_AwaitedFileIsTailed ==
    \A i \in 1..MaxIno :
        (AwaitingCreation /\ fs.ino = i) ~> (Tailing \/ fs.ino # i \/ ~tl.running)

(***************************************************************************)
(* The file source: FileProvider owns one tailer, of either kind, which    *)
(* start() constructs and starts and stop() stops and waits for.  The      *)
(* wait in stop() is modelled for the worker that ends within its          *)
(* 5 seconds.                                                              *)
(***************************************************************************)
MaxProvOps == 3

NewProvider(wildcard, tailOnly) ==
    [NoProvider EXCEPT !.wildcard = wildcard, !.tailOnly = tailOnly]

\* A tailer object that does not exist yet.
Unmade(st) == [st EXCEPT !.wpc = "new"]

\* start() without its test of _running.
FileProviderStartAgain(p, t, w) ==
    LET q == [p EXCEPT !.starts = @ + 1, !.running = TRUE, !.watcher = TRUE,
                       !.made = @ + 1]
    IN  IF p.wildcard
        THEN [fp |-> q, tl |-> t, pt |-> WildcardInit(NewPattern(p.tailOnly))]
        ELSE [fp |-> q, tl |-> FileWatcherInit(NewTailer(p.tailOnly)), pt |-> w]

\* FileProvider.start: the provider, its Single-File Tailer and its Pattern
\* Tailer after the call.
FileProviderStart(p, t, w) ==
    IF p.running THEN [fp |-> [p EXCEPT !.starts = @ + 1], tl |-> t, pt |-> w]
    ELSE FileProviderStartAgain(p, t, w)

\* FileProvider.stop, up to the wait for the worker.
FileProviderStop(p, t, w) ==
    IF ~p.running THEN [fp |-> [p EXCEPT !.stops = @ + 1], tl |-> t, pt |-> w]
    ELSE IF ~p.watcher
    THEN [fp |-> [p EXCEPT !.stops = @ + 1, !.running = FALSE], tl |-> t, pt |-> w]
    ELSE IF p.wildcard
    THEN [fp |-> [p EXCEPT !.stops = @ + 1, !.pc = "wait"], tl |-> t,
          pt |-> [w EXCEPT !.running = FALSE]]
    ELSE [fp |-> [p EXCEPT !.stops = @ + 1, !.pc = "wait"],
          tl |-> [t EXCEPT !.running = FALSE], pt |-> w]

ProvStep(res) ==
    /\ cnt.reg < MaxProvOps
    /\ fp.pc = "idle"
    /\ Count("reg")
    /\ fp' = res.fp
    /\ tl' = res.tl
    /\ pt' = res.pt
    /\ UNCHANGED <<fs, pd, reg, ws, lk, hubVars, hubHist>>

FpStart == ProvStep(FileProviderStart(fp, tl, pt))

FpStop == ProvStep(FileProviderStop(fp, tl, pt))

\* stop(), lines 100-104: the worker has finished, wait() returns.
FpStopped ==
    /\ fp.pc = "wait"
    /\ IF fp.wildcard THEN pt.wpc = "done" ELSE tl.wpc = "done"
    /\ fp' = [fp EXCEPT !.pc = "idle", !.watcher = FALSE, !.running = FALSE]
    /\ UNCHANGED <<cnt, tailVars, patVars, reg, ws, lk, hubVars, hubHist>>

InitProv ==
    /\ HubStart([k \in Keys |-> IF k = PathKey THEN NewBuffer(DefaultMaxLines)
                                ELSE BufAppend(NewBuffer(DefaultMaxLines), <<<<0, 0>>>>)],
                [k \in Keys |-> IF k = PathKey THEN <<Viewer>> ELSE <<>>])
    /\ raisers = {}
    /\ cnt = NoCounts
    /\ fs \in {NoFiles, FileWith(1)}
    /\ pd = DirWith(<<"a.log">>)
    /\ fp \in {NewProvider(w, m) : w, m \in BOOLEAN}
    /\ tl = Unmade(NewTailer(fp.tailOnly))
    /\ pt = Unmade(NewPattern(fp.tailOnly))
    /\ reg = NoRegistry
    /\ ws = NoWatchers
    /\ lk = NoLock

NextProv ==
    \/ FpStart \/ FpStop \/ FpStopped
    \/ WRun \/ WArm \/ WBegin \/ WOpen \/ WStat \/ WTick \/ WExit
    \/ OCreated \/ OBegin \/ OOpen \/ OStat \/ OModified
    \/ FsAppend \/ FsCreate
    \/ PRun \/ PInitialSwitch \/ PWatch \/ PLoop \/ PExit
    \/ HubProcess

SpecProv == InitProv /\ [][NextProv]_vars

\* C23: start() on a file source that is running constructs no watcher,
\* leaves the source and its tailer as they are and makes no call on the
\* Hub, so the initial content is not published again; stop() on a source
\* that is not running changes nothing either.
C23_StartAndStopIdempotent ==
    [][/\ (fp'.starts # fp.starts /\ fp.running) =>
              /\ fp' = [fp EXCEPT !.starts = @ + 1]
              /\ tl' = tl /\ pt' = pt /\ sigq' = sigq /\ buffers' = buffers
       /\ (fp'.stops # fp.stops /\ ~fp.running) =>
              /\ fp' = [fp EXCEPT !.stops = @ + 1]
              /\ tl' = tl /\ pt' = pt /\ sigq' = sigq /\ buffers' = buffers]_vars

\* stop() was called on a source that was not running, and start() was called
\* a second time on the running source whose tailer has published the
\* initial content.
C23_Witness ==
    /\ fp.running /\ fp.starts = 2 /\ fp.stops = 1 /\ fp.made = 1
    /\ ContentLines(IF fp.wildcard THEN pt.log ELSE tl.log) # <<>>

(***************************************************************************)
(* Mutual exclusion of the tailer's threads                                *)
(***************************************************************************)
\* The worker is inside a handler called by a reconciliation tick.
InTick == tl.wpc \in {"reread", "reopen"}

\* The observer's thread is inside a notification callback.
InCallback == tl.opc \in {"begin", "open", "stat"}

\* C24: the poll loop and a notification callback of the Single-File Tailer
\* are never both inside code that changes the tailer's fields: while the
\* observer's thread is in _on_file_created and _start_tailing (which set
\* _observer, _file_handle and _last_file_state), the worker is not in the
\* _reload_file of a tick (which sets the same fields).
C24_LoopAndCallbackExclusive == ~(InTick /\ InCallback)

(***************************************************************************)
(* The Hub's lock.  Each method of LogManager is taken statement by        *)
(* statement by the thread that called it: the GUI thread calls            *)
(* register_log, unregister_log, subscribe and unsubscribe and runs the    *)
(* slots of the queued signals; a tailer's worker calls publish_content    *)
(* and clear_buffer.  Every step records what it touched (a buffer, a      *)
(* subscriber list, a subscriber's callback) and whether its thread held   *)
(* _lock.                                                                  *)
(***************************************************************************)
MaxLockOps == 3

\* The chunk a tailer publishes.
Chunk == << <<1, 1>> >>

At(t, m, pc) == lk.th[t].m = m /\ lk.th[t].pc = pc

Goto(t, pc) == [lk.th[t] EXCEPT !.pc = pc]

\* A statement of thread t: the lock's owner and the thread's position after
\* it, what it touched, and the Hub's buffers, lists, queue and deliveries.
LockStep(t, owner, th, op, bufs, subs, q, rc) ==
    /\ lk' = [owner |-> owner, th |-> [lk.th EXCEPT ![t] = th],
              last |-> [op |-> op, held |-> lk.owner = t, m |-> lk.th[t].m]]
    /\ buffers' = bufs
    /\ subscribers' = subs
    /\ sigq' = q
    /\ recv' = rc
    /\ UNCHANGED <<raisers, escaped, hubHist, cnt, tailVars, patVars, reg, ws, fp>>

\* A statement that touches nothing of the Hub.
Move(t, owner, th) == LockStep(t, owner, th, "none", buffers, subscribers, sigq, recv)

\* The callbacks made on the subscribers of `list` with `note`.
Notified(list, note) ==
    [s \in Subs |-> IF s \in Called(list) THEN Append(recv[s], note) ELSE recv[s]]

\* A thread calls a method of the LogManager.
LCall(t, m) ==
    /\ cnt.reg < MaxLockOps
    /\ lk.th[t].m = "idle"
    /\ lk' = [lk EXCEPT !.th[t] = [Outside EXCEPT !.m = m, !.pc = 1],
                        !.last = [op |-> "none", held |-> FALSE, m |-> m]]
    /\ Count("reg")
    /\ UNCHANGED <<hubVars, hubHist, tailVars, patVars, reg, ws, fp>>

\* The GUI thread's event loop takes the oldest queued signal to its slot.
LSlot ==
    /\ lk.th["gui"].m = "idle"
    /\ sigq # <<>>
    /\ LockStep("gui", lk.owner,
                [Outside EXCEPT !.m = Head(sigq).sig, !.pc = 1, !.c = Head(sigq).content],
                "none", buffers, subscribers, Tail(sigq), recv)

\* with self._lock: (register_log, _on_content_available)
LAcquire(t) ==
    /\ At(t, "register", 1) \/ At(t, "content", 1)
    /\ lk.owner \in {None, t}
    /\ Move(t, t, Goto(t, 2))

\* register_log, lines 146-148
LRegister(t) ==
    /\ At(t, "register", 2)
    /\ IF PathKey \notin DOMAIN buffers
       THEN LockStep(t, lk.owner, Goto(t, 3), "buffer",
                     [x \in DOMAIN buffers \cup {PathKey} |->
                        IF x = PathKey THEN NewBuffer(DefaultMaxLines) ELSE buffers[x]],
                     subscribers, sigq, recv)
       ELSE Move(t, None, Outside)

LRegisterList(t) ==
    /\ At(t, "register", 3)
    /\ LockStep(t, None, Outside, "subs", buffers,
                [x \in DOMAIN subscribers \cup {PathKey} |->
                   IF x = PathKey THEN <<>> ELSE subscribers[x]],
                sigq, recv)

\* unregister_log, lines 158-159
LUnregister(t) ==
    /\ At(t, "unregister", 1)
    /\ IF PathKey \in DOMAIN buffers
       THEN LockStep(t, lk.owner, Goto(t, 2), "buffer",
                     [x \in DOMAIN buffers \ {PathKey} |-> buffers[x]],
                     subscribers, sigq, recv)
       ELSE Move(t, lk.owner, Outside)

\* unregister_log, line 160
LUnregisterList(t) ==
    /\ At(t, "unregister", 2)
    /\ LockStep(t, lk.owner, Outside, "subs", buffers,
                [x \in DOMAIN subscribers \ {PathKey} |-> subscribers[x]], sigq, recv)

\* subscribe, lines 173-178
LSubscribe(t) ==
    /\ At(t, "subscribe", 1)
    /\ IF PathKey \in DOMAIN subscribers /\ Viewer \notin Range(subscribers[PathKey])
       THEN LockStep(t, lk.owner, Goto(t, 2), "subs", buffers,
                     [subscribers EXCEPT ![PathKey] = Append(@, Viewer)], sigq, recv)
       ELSE Move(t, lk.owner, Outside)

\* subscribe, lines 181-185: the catch-up call.
LCatchUp(t) ==
    /\ At(t, "subscribe", 2)
    /\ IF CatchUp(PathKey, Viewer) # <<>>
       THEN LockStep(t, lk.owner, Outside, "call", buffers, subscribers, sigq,
                     [recv EXCEPT ![Viewer] = @ \o CatchUp(PathKey, Viewer)])
       ELSE Move(t, lk.owner, Outside)

\* unsubscribe, lines 194-195
LUnsubscribe(t) ==
    /\ At(t, "unsubscribe", 1)
    /\ IF PathKey \in DOMAIN subscribers /\ Viewer \in Range(subscribers[PathKey])
       THEN LockStep(t, lk.owner, Outside, "subs", buffers,
                     [subscribers EXCEPT ![PathKey] = Remove(@, Viewer)], sigq, recv)
       ELSE Move(t, lk.owner, Outside)

\* publish_content: the signal is queued for the GUI thread.
LPublish(t) ==
    /\ At(t, "publish", 1)
    /\ LockStep(t, lk.owner, Outside, "none", buffers, subscribers,
                Emit(sigq, Sig("content", PathKey, Chunk, "")), recv)

\* clear_buffer, lines 250-251
LClear(t) ==
    /\ At(t, "clear", 1)
    /\ IF PathKey \in DOMAIN buffers
       THEN LockStep(t, lk.owner, Goto(t, 2), "buffer",
                     [buffers EXCEPT ![PathKey] = BufClear(@)], subscribers, sigq, recv)
       ELSE Move(t, lk.owner, Outside)

\* clear_buffer, line 252
LClearEmit(t) ==
    /\ At(t, "clear", 2)
    /\ LockStep(t, lk.owner, Outside, "none", buffers, subscribers,
                Emit(sigq, Sig("cleared", PathKey, <<>>, "")), recv)

\* _on_content_available, lines 282-285: the append.
LAppend(t) ==
    /\ At(t, "content", 2)
    /\ IF PathKey \in DOMAIN buffers
       THEN LockStep(t, lk.owner, Goto(t, 3), "buffer",
                     [buffers EXCEPT ![PathKey] = BufAppend(@, lk.th[t].c)],
                     subscribers, sigq, recv)
       ELSE Move(t, lk.owner, Goto(t, 3))

\* _on_content_available, lines 301-303: the copy of the list, and the end of
\* the with block.
LCopy(t) ==
    /\ At(t, "content", 3)
    /\ Move(t, None, [lk.th[t] EXCEPT !.pc = 4, !.subs = SubsOf(PathKey)])

\* _on_content_available, lines 306-310: the callbacks.
LNotify(t) ==
    /\ At(t, "content", 4)
    /\ IF lk.th[t].subs # <<>>
       THEN LockStep(t, lk.owner, Outside, "call", buffers, subscribers, sigq,
                     Notified(lk.th[t].subs, Sig("content", PathKey, lk.th[t].c, "")))
       ELSE Move(t, lk.owner, Outside)

\* _on_cleared, lines 320-325
LCleared(t) ==
    /\ At(t, "cleared", 1)
    /\ IF SubsOf(PathKey) # <<>>
       THEN LockStep(t, lk.owner, Outside, "call", buffers, subscribers, sigq,
                     Notified(SubsOf(PathKey), Sig("cleared", PathKey, <<>>, "")))
       ELSE Move(t, lk.owner, Outside)

InitLock ==
    /\ HubStart([k \in Keys |-> IF k = PathKey THEN NewBuffer(DefaultMaxLines)
                                ELSE BufAppend(NewBuffer(DefaultMaxLines), <<<<0, 0>>>>)],
                [k \in Keys |-> IF k = PathKey THEN <<Viewer>> ELSE <<>>])
    /\ raisers = {}
    /\ cnt = NoCounts
    /\ fs = NoFiles
    /\ tl = NewTailer(FALSE)
    /\ pd = NoDir
    /\ pt = NewPattern(FALSE)
    /\ reg = NoRegistry
    /\ ws = NoWatchers
    /\ fp = NoProvider
    /\ lk = NoLock

NextLock ==
    \/ \E m \in {"register", "unregister", "subscribe", "unsubscribe"} : LCall("gui", m)
    \/ \E m \in {"publish", "clear"} : LCall("wrk", m)
    \/ LSlot
    \/ \E t \in Threads :
          \/ LAcquire(t) \/ LRegister(t) \/ LRegisterList(t)
          \/ LUnregister(t) \/ LUnregisterList(t)
          \/ LSubscribe(t) \/ LCatchUp(t) \/ LUnsubscribe(t)
          \/ LPublish(t) \/ LClear(t) \/ LClearEmit(t)
          \/ LAppend(t) \/ LCopy(t) \/ LNotify(t) \/ LCleared(t)

SpecLock == InitLock /\ [][NextLock]_vars

\* C25: every step of a Hub method that changes a key's buffer or subscriber
\* list (in register_log, unregister_log, subscribe, unsubscribe, the append
\* of _on_content_available, clear_buffer) is taken by a thread that holds
\* _lock, and no step that calls a subscriber is taken by a thread that
\* holds it.
C25_MutationsUnderLock ==
    /\ lk.last.op \in {"buffer", "subs"} => lk.last.held
    /\ lk.last.op = "call" => ~lk.last.held

(***************************************************************************)
(* Interruptions and resumptions of the Pattern Tailer                     *)
(***************************************************************************)
\* Interruptions and resumptions alternate, an interruption first.
Alternating(sigs) ==
    \A i \in 1..Len(sigs) : sigs[i] = (IF i % 2 = 1 THEN "interrupted" ELSE "resumed")

\* C26: the interruptions and resumptions a Pattern Tailer publishes
\* alternate, beginning with an interruption: a hot switch or a deletion of
\* the current file publishes one interruption, no other is published until
\* the resumption that follows once a file is tailed again, and no
\* resumption is published without an interruption before it.
C26_InterruptionsMatched == Alternating(EventSigs(pt.log))

(***************************************************************************)
(* The Pattern Tailer's current file is rewritten: truncated, or replaced  *)
(* in place by another file renamed over it.  Neither is a creation the    *)
(* directory handler acts on.                                              *)
(***************************************************************************)
DirTruncate(n) ==
    /\ PExists(n)
    /\ pt.current = n /\ pt.handle.open
    /\ \E t \in PStamps, k \in 0..(Len(PData(n)) - 1) :
          DirStep([pd EXCEPT !.data[pd.at[n]] = SubSeq(@, 1, k),
                             !.mtime[pd.at[n]] = t, !.clock = t,
                             !.rewrites = @ + 1], <<>>)

\* Another file, holding one line, is renamed over n.
DirReplace(n) ==
    /\ PExists(n)
    /\ pt.current = n /\ pt.handle.open
    /\ \E t \in PStamps :
          DirStep([pd EXCEPT !.at[n] = pd.used + 1, !.used = @ + 1,
                             !.data[pd.used + 1] = << <<pd.used + 1, pd.lines + 1>> >>,
                             !.lines = @ + 1,
                             !.mtime[pd.used + 1] = t, !.clock = t,
                             !.rewrites = @ + 1], <<>>)

InitRewrite ==
    /\ HubStart([k \in Keys |-> IF k = PathKey THEN NewBuffer(DefaultMaxLines)
                                ELSE BufAppend(NewBuffer(DefaultMaxLines), <<<<0, 0>>>>)],
                [k \in Keys |-> IF k = PathKey THEN <<Viewer>> ELSE <<>>])
    /\ raisers = {}
    /\ cnt = NoCounts
    /\ fs = NoFiles
    /\ tl = NewTailer(FALSE)
    /\ pd = DirWith(<<"a.log">>)
    /\ pt \in {NewPattern(m) : m \in BOOLEAN}
    /\ reg = NoRegistry
    /\ ws = NoWatchers
    /\ fp = NoProvider
    /\ lk = NoLock

NextRewrite ==
    \/ PRun \/ PInitialSwitch \/ PWatch \/ PLoop
    \/ \E n \in DirNames : DirAppend(n)
    \/ \E n \in DirNames : DirTruncate(n)
    \/ \E n \in DirNames : DirReplace(n)
    \/ HubProcess

SpecRewrite == InitRewrite /\ [][NextRewrite]_vars

\* C27: once the Pattern Tailer's loop has made a pass after its current file
\* was truncated or replaced in place, the tailer has published an
\* interruption and a resumption and reads the file that is now at the
\* path, from an offset within it (it re-read it from offset 0), as the
\* Single-File Tailer does.
C27_RewriteHandledAsSingleFile ==
    (/\ pd.rewrites > 0
     /\ pt.running /\ pt.wpc = "loop" /\ ~pt.dirty
     /\ pt.current # None /\ PExists(pt.current)) =>
        /\ Len(EventSigs(pt.log)) >= 2
        /\ pt.handle.open
        /\ pt.handle.ino = pd.at[pt.current]
        /\ pt.handle.pos = Len(PData(pt.current))

(***************************************************************************)
(* Progress of the Pattern Tailer after its current file is deleted.  The  *)
(* worker's loop and the observer's thread are scheduled, and the Hub's    *)
(* thread handles every queued signal; what other programs do to the       *)
(* directory is under no obligation.                                       *)
(***************************************************************************)
InitGone ==
    /\ HubStart([k \in Keys |-> IF k = PathKey THEN NewBuffer(DefaultMaxLines)
                                ELSE BufAppend(NewBuffer(DefaultMaxLines), <<<<0, 0>>>>)],
                [k \in Keys |-> IF k = PathKey THEN <<Viewer>> ELSE <<>>])
    /\ raisers = {}
    /\ cnt = NoCounts
    /\ fs = NoFiles
    /\ tl = NewTailer(FALSE)
    /\ pd = DirWith(<<"a.log">>)
    /\ pt \in {NewPattern(m) : m \in BOOLEAN}
    /\ reg = NoRegistry
    /\ ws = NoWatchers
    /\ fp = NoProvider
    /\ lk = NoLock

NextGone ==
    \/ PRun \/ PInitialSwitch \/ PWatch \/ PLoop
    \/ PCreated \/ PCallback \/ PSecondPasses
    \/ \E n \in DirNames : DirCreate(n)
    \/ \E n \in DirNames : DirDelete(n)
    \/ HubProcess

SpecGone == InitGone /\ [][NextGone]_vars

SpecGoneLive ==
    /\ SpecGone
    /\ WF_vars(PRun) /\ WF_vars(PInitialSwitch) /\ WF_vars(PWatch) /\ WF_vars(PLoop)
    /\ WF_vars(PCreated) /\ WF_vars(PCallback) /\ WF_vars(PSecondPasses)
    /\ WF_vars(HubProcess)

\* The tailer holds an open handle on a matching file that exists.
Tails == pt.handle.open /\ \E n \in Glob : pd.at[n] = pt.handle.ino

\* The pass the loop would make next publishes more than the model follows.
Cut ==
    /\ pt.wpc = "loop"
    /\ \E f \in FindLatestMatchingFile : Len(LoopPass(pt, f).log) > MaxPatCalls

\* C28: a running Pattern Tailer that has lost its current file (it has one
\* recorded but holds no handle on an existing matching file) while a
\* matching file exists eventually holds an open handle on an existing
\* matching file, unless no matching file is left, whether or not a creation
\* notification was delivered.
C28_TailsAgainAfterDeletion ==
    (pt.running /\ pt.wpc = "loop" /\ pt.current # None /\ ~Tails /\ Glob # {})
        ~> (Tails \/ Glob = {} \/ ~pt.running \/ Cut)

(***************************************************************************)
(* The Single-File Tailer without notifications: the observers deliver     *)
(* nothing, and only the worker's reconciliation ticks look at the file.   *)
(***************************************************************************)
NextPoll ==
    \/ WRun \/ WArm \/ WBegin \/ WOpen \/ WStat \/ WTick \/ WReread \/ WReopen
    \/ FsAppend \/ FsTruncate \/ FsDelete \/ FsCreate \/ FsReplace
    \/ HubProcess

SpecPoll == InitTail /\ [][NextPoll]_vars

SpecPollLive ==
    /\ SpecPoll
    /\ WF_vars(WRun) /\ WF_vars(WArm) /\ WF_vars(WBegin) /\ WF_vars(WOpen)
    /\ WF_vars(WStat) /\ WF_vars(WTick) /\ WF_vars(WReread) /\ WF_vars(WReopen)
    /\ WF_vars(HubProcess)

\* The numbers the lines of the file can bear.
LineNos == 1..(InitLines + MaxTailOps)

\* Line <<i, n>> is in the file beyond the offset of the tailer's handle.
Unread(i, n) ==
    \E j \in (tl.handle.pos + 1)..Len(FileData) : FileData[j] = <<i, n>>

\* C29: with no notification delivered, every line appended to the file of a
\* tailer in Tailing (the line lies beyond the handle's offset, which is the
\* size the tailer last recorded) is eventually published, unless the line
\* is removed or the file deleted or replaced first: the ticks alone pick up
\* what was appended, whatever modification time the append left.
C29_TicksAloneCatchUp ==
    \A i \in 1..MaxIno, n \in LineNos :
        (Tailing /\ tl.handle.pos = tl.last.size /\ fs.ino = i /\ Unread(i, n))
            ~> \/ <<i, n>> \in Range(ContentLines(tl.log))
               \/ fs.ino # i
               \/ <<i, n>> \notin Range(FileData)

(***************************************************************************)
(* Errors during a reconciliation tick.  The file is replaced by one the   *)
(* tailer may not open, which is made readable after the tailer has met    *)
(* the error.  open() of the path fails on such a file; reads of a handle  *)
(* that is already open do not fail here.                                  *)
(***************************************************************************)
\* Another file, holding one line and not readable, is renamed over the path.
FsReplaceDenied ==
    /\ Exists /\ fs.readable
    /\ \E t \in Stamps :
          FsStep([fs EXCEPT !.ino = fs.used + 1, !.used = @ + 1,
                            !.data[fs.used + 1] = << <<fs.used + 1, fs.lines + 1>> >>,
                            !.lines = @ + 1,
                            !.mtime[fs.used + 1] = t, !.clock = t,
                            !.readable = FALSE], "none")

InitFault ==
    /\ HubStart([k \in Keys |-> IF k = PathKey THEN NewBuffer(DefaultMaxLines)
                                ELSE BufAppend(NewBuffer(DefaultMaxLines), <<<<0, 0>>>>)],
                [k \in Keys |-> IF k = PathKey THEN <<Viewer>> ELSE <<>>])
    /\ raisers = {}
    /\ cnt = NoCounts
    /\ fs \in {FileWith(n) : n \in 0..InitLines}
    /\ tl \in {NewTailer(m) : m \in BOOLEAN}
    /\ pd = NoDir
    /\ pt = NewPattern(FALSE)
    /\ reg = NoRegistry
    /\ ws = NoWatchers
    /\ fp = NoProvider
    /\ lk = NoLock

NextFault ==
    \/ WRun \/ WBegin \/ WOpen \/ WStat \/ WTick \/ WReread \/ WReopen
    \/ OModified
    \/ FsAppend \/ FsReplace \/ FsReplaceDenied \/ FsChmod
    \/ HubProcess

SpecFault == InitFault /\ [][NextFault]_vars

SpecFaultLive ==
    /\ SpecFault
    /\ WF_vars(WRun) /\ WF_vars(WBegin) /\ WF_vars(WOpen) /\ WF_vars(WStat)
    /\ WF_vars(WTick) /\ WF_vars(WReread) /\ WF_vars(WReopen)
    /\ WF_vars(OModified)
    /\ WF_vars(HubProcess)

\* C30: a tailer whose tick met an open or read error stays in its loop with
\* its tailing state, and once the file at the path can be read a later tick
\* tries again: the tailer is eventually Tailing that file, unless the file
\* is replaced or made unreadable again first.
C30_TickErrorIsRetried ==
    \A i \in 1..MaxIno :
        (tl.errs > 0 /\ tl.running /\ tl.wpc = "loop" /\ fs.ino = i /\ fs.readable)
            ~> (Tailing \/ fs.ino # i \/ ~fs.readable)

(***************************************************************************)
(* A truncation seen by both paths                                         *)
(***************************************************************************)
\* The interruptions published for a truncation.
TruncationsHandled ==
    Len(SelectSeq(tl.log, LAMBDA c : c.sig = "interrupted"
                                     /\ c.reason = "File truncated/rotated"))

\* C31: on a file that is never deleted or replaced, the tailer publishes no
\* more interruption/resumption pairs for truncation than there were
\* truncations: a truncation that both the modification callback and a
\* reconciliation tick observe, in either order, is handled once.
C31_TruncationHandledOnce ==
    (fs.used = 1 /\ fs.ino = 1) => TruncationsHandled <= fs.truncs

(***************************************************************************)
(* Deletion seen by both threads.  _on_file_deleted is taken in two steps  *)
(* here, its publish and its cleanup, so that the observer's thread and    *)
(* the worker's tick can both be inside it, as nothing in the code         *)
(* prevents.  stop() of an observer does not take back a callback that its *)
(* thread has already entered.                                             *)
(***************************************************************************)
\* A reconciliation tick that finds the file missing enters _on_file_deleted.
WTickDeleted ==
    /\ tl.wpc = "loop"
    /\ tl.running
    /\ tl.handle.open /\ ~Exists
    /\ TailStep([OnFileDeletedPublish(tl) EXCEPT !.wpc = "deleting", !.tickBit = ~@])

\* Any other tick.
WTickOther == (tl.handle.open => Exists) /\ WTick

WDeleted ==
    /\ tl.wpc = "deleting"
    /\ TailStep([OnFileDeletedRearm(tl) EXCEPT !.wpc = "loop"])

\* _FileTailHandler.on_deleted: the observer's thread enters _on_file_deleted.
ODeletedEnter ==
    /\ tl.obs = "tail"
    /\ tl.evq # <<>>
    /\ Head(tl.evq) = "del"
    /\ tl.opc = "idle"
    /\ TailStep([OnFileDeletedPublish([tl EXCEPT !.evq = Tail(@)])
                    EXCEPT !.opc = "deleting"])

ODeletedLeave ==
    /\ tl.opc = "deleting"
    /\ TailStep([OnFileDeletedRearm(tl) EXCEPT !.opc = "idle"])

NextDel ==
    \/ WRun \/ WArm \/ WBegin \/ WOpen \/ WStat
    \/ WTickOther \/ WTickDeleted \/ WDeleted
    \/ OCreated \/ OBegin \/ OOpen \/ OStat \/ OModified
    \/ ODeletedEnter \/ ODeletedLeave
    \/ FsAppend \/ FsDelete \/ FsCreate
    \/ HubProcess

SpecDel == InitTail /\ [][NextDel]_vars

\* The interruptions published for a deletion.
DeletionsHandled ==
    Len(SelectSeq(tl.log, LAMBDA c : c.sig = "interrupted" /\ c.reason = "File deleted"))

\* C32: the tailer publishes at most one "deleted" interruption per deletion
\* of the file and starts at most one creation watch per deletion (and one
\* at start): a deletion signal that reaches a tailer which has already
\* handled the deletion publishes nothing and arms no watch.
C32_DeletionHandledOnce ==
    /\ DeletionsHandled <= fs.dels
    /\ tl.arms <= fs.dels + 1

(***************************************************************************)
(* The calls of a reload                                                   *)
(***************************************************************************)
\* Where the tailer has published an interruption for a replacement.
ReplacedAt ==
    {i \in 1..Len(tl.log) :
        tl.log[i].sig = "interrupted" /\ tl.log[i].reason = "File replaced"}

CallsAfter(i) == SubSeq(tl.log, i + 1, Len(tl.log))

\* s begins as the calls of _reload_file after its interruption do: the
\* clear, the content read (none from an empty file), the separator, the
\* resumption.
ReloadInOrder(s) ==
    /\ Len(s) >= 1 => s[1].sig = "clear"
    /\ Len(s) >= 2 => s[2].sig = "content"
    /\ (Len(s) >= 3 /\ s[2].content = Separator) => s[3].sig = "resumed"
    /\ (Len(s) >= 3 /\ s[2].content # Separator) =>
          /\ s[3].sig = "content" /\ s[3].content = Separator
          /\ Len(s) >= 4 => s[4].sig = "resumed"

ClearsPublished == Len(SelectSeq(tl.log, LAMBDA c : c.sig = "clear"))

\* The new entries of the tailer's call log in a step.
NewCalls == SubSeq(tl'.log, Len(tl.log) + 1, Len(tl'.log))

TruncatedAt ==
    {i \in 1..Len(tl.log) :
        tl.log[i].sig = "interrupted" /\ tl.log[i].reason = "File truncated/rotated"}

\* s begins with the separator, then what was read from offset 0 (nothing
\* from an empty file), then the resumption.
TruncationInOrder(s) ==
    /\ Len(s) >= 1 => (s[1].sig = "content" /\ s[1].content = Separator)
    /\ Len(s) >= 2 => s[2].sig \in {"content", "resumed"}
    /\ (Len(s) >= 3 /\ s[2].sig = "content") => s[3].sig = "resumed"

\* C34: after the interruption "File truncated/rotated" the tailer publishes
\* the separator, then the content read from offset 0, and only then the
\* resumption.  (Stated while no deletion or replacement has let another
\* handler publish in between.)
C34_TruncationInOrder ==
    (fs.dels = 0 /\ fs.used = 1) =>
        \A i \in TruncatedAt : TruncationInOrder(CallsAfter(i))

(***************************************************************************)
(* What a reconciliation tick runs                                         *)
(***************************************************************************)
Interruptions(calls) == SelectSeq(calls, LAMBDA c : c.sig = "interrupted")

\* C35: a tick of the worker's loop runs at most one handler.  Without a
\* handle it does nothing.  With one: a missing file is handled as a
\* deletion; else a changed inode starts the reload, whatever the size; else
\* a smaller size is handled as a truncation and the state recorded; else a
\* newer mtime with a larger size reads on from the handle's offset (the
\* offset lying within the file at the path) and the state is recorded; else
\* nothing is published and the handle is left alone.
C35_TickRunsOneHandler ==
    [][(IsTick /\ tl.wpc = "loop") =>
         LET cur == FromPath
             last == tl.last
             held == fs.data[tl.handle.ino]    \* the file the handle reads
             beyond == SubSeq(held, tl.handle.pos + 1, Len(held))
         IN  /\ Len(Interruptions(NewCalls)) <= 1
             /\ IF ~tl.handle.open
                 THEN NewCalls = <<>> /\ tl'.handle = tl.handle /\ tl'.last = tl.last
                        /\ tl'.obs = tl.obs /\ tl'.wpc = "loop"
                 ELSE IF ~Exists
                 THEN /\ NewCalls = <<Sig("interrupted", PathKey, <<>>, "File deleted")>>
                      /\ ~tl'.handle.open /\ tl'.last = NoState /\ tl'.obs = "create"
                 ELSE IF ~last.known
                 THEN NewCalls = <<>> /\ tl'.handle = tl.handle
                 ELSE IF cur.inode # last.inode
                 THEN /\ NewCalls = <<Sig("interrupted", PathKey, <<>>, "File replaced"),
                                      Sig("clear", PathKey, <<>>, "")>>
                      /\ tl'.wpc = "reread" /\ ~tl'.handle.open
                 ELSE IF cur.size < last.size
                 THEN /\ Len(NewCalls) >= 1
                      /\ NewCalls[1] = Sig("interrupted", PathKey, <<>>,
                                            "File truncated/rotated")
                      /\ ContentLines(NewCalls) = Separator \o held
                      /\ tl'.last = cur /\ tl'.handle.pos = Len(held)
                 ELSE IF cur.mtime > last.mtime /\ cur.size > last.size
                 THEN /\ tl'.last = cur
                      /\ ~SizeBelowOffset(tl) =>
                            /\ Interruptions(NewCalls) = <<>>
                            /\ ContentLines(NewCalls) = beyond
                            /\ tl'.handle.pos = IF beyond = <<>> THEN tl.handle.pos
                                                ELSE Len(held)
                      /\ SizeBelowOffset(tl) =>
                            /\ ContentLines(NewCalls) = held
                            /\ tl'.handle.pos = Len(held)
                 ELSE NewCalls = <<>> /\ tl'.handle = tl.handle /\ tl'.wpc = "loop"
      ]_vars

\* A tick has started the reload of a file that is also smaller than the
\* recorded size.
C35_Witness ==
    /\ tl.wpc = "reread"
    /\ tl.last.known /\ Exists
    /\ FromPath.inode # tl.last.inode
    /\ FromPath.size < tl.last.size

(***************************************************************************)
(* The Hub's calls that are not content: clear, interrupted, resumed       *)
(***************************************************************************)
\* The Hub's thread handles the queued signal sg: each subscriber of its key
\* gets it once, and nothing else of the Hub changes.
Delivered(sg) ==
    /\ \A s \in Subs :
          recv'[s] = IF s \in Range(SubsOf(sg.key)) THEN Append(recv[s], sg) ELSE recv[s]
    /\ buffers' = buffers
    /\ subscribers' = subscribers

C37_EventsPassThrough ==
    [][/\ \A k \in OpKeys :
             /\ ProducerInterrupted(k) =>
                   /\ sigq' = Append(sigq, Sig("interrupted", k, <<>>, "File deleted"))
                   /\ buffers' = buffers /\ subscribers' = subscribers /\ recv' = recv
             /\ ProducerResumed(k) =>
                   /\ sigq' = Append(sigq, Sig("resumed", k, <<>>, ""))
                   /\ buffers' = buffers /\ subscribers' = subscribers /\ recv' = recv
             /\ \A s \in Subs :
                   (Subscribe(k, s) /\ subscribers' # subscribers) =>
                      recv'[s] = recv[s] \o
                                 (IF buffers[k].lines = <<>> THEN <<>>
                                  ELSE <<Sig("content", k, buffers[k].lines, "")>>)
       /\ (HubProcess /\ Head(sigq).sig \in {"interrupted", "resumed"}) =>
             Delivered(Head(sigq))
       /\ \A k \in DOMAIN buffers' :
             Range(buffers'[k].lines) \subseteq Range(Flatten(pubSeq'[k]))
      ]_vars

\* s1 has had a chunk and the interruption with its reason; s2, subscribed
\* after that, has had the chunk alone.
C37_Witness ==
    /\ "k1" \in DOMAIN subscribers
    /\ subscribers["k1"] = <<"s1", "s2">>
    /\ Len(recv["s1"]) = 2
    /\ recv["s1"][1].sig = "content"
    /\ recv["s1"][2] = Sig("interrupted", "k1", <<>>, "File deleted")
    /\ recv["s2"] = <<recv["s1"][1]>>

(***************************************************************************)
(* Content published on a key that is not registered                       *)
(***************************************************************************)
\* A producer publishes on a key that is not registered.  The lines of such
\* a chunk are numbered below zero, to be told from the others.
ProducerPublishStray(k) ==
    /\ HubOps < MaxHubOps
    /\ k \notin DOMAIN buffers
    /\ Count("pub")
    /\ HubCalls(<<Sig("content", k, <<<<0 - (cnt.pub + 1), 1>>>>, "")>>)
    /\ UNCHANGED <<subscribers, recv, raisers, escaped, procCount, subAt, snap, recvAt,
                   expected>>
    /\ UNCHANGED nonHub

NextStray ==
    \/ \E k \in OpKeys, max \in {SmallCap, DefaultMaxLines} : RegisterLog(k, max)
    \/ \E k \in OpKeys : UnregisterLog(k)
    \/ \E k \in OpKeys, s \in Subs : Subscribe(k, s)
    \/ \E k \in OpKeys, s \in Subs : Unsubscribe(k, s)
    \/ \E k \in OpKeys : ProducerPublish(k)
    \/ \E k \in OpKeys : ProducerPublishStray(k)
    \/ HubProcess

SpecStray == InitHub /\ [][NextStray]_vars

\* The lines of chunks published on an unregistered key, among `lines`.
StrayLines(lines) == {i \in 1..Len(lines) : lines[i][1] < 0}

\* C38: a key has a buffer exactly when it has a subscriber list; a publish
\* on a key that is not registered creates no buffer, and its content never
\* shows in a buffer or in a callback; a subscribe on such a key adds no
\* subscriber and calls nothing; a registration of such a key gives it an
\* empty buffer and no subscribers.
C38_BufferOnlyWhileRegistered ==
    [][/\ DOMAIN buffers' = DOMAIN subscribers'
       /\ \A k \in OpKeys :
             /\ ProducerPublishStray(k) =>
                   buffers' = buffers /\ subscribers' = subscribers /\ recv' = recv
             /\ \A s \in Subs :
                   (Subscribe(k, s) /\ k \notin DOMAIN buffers) =>
                      subscribers' = subscribers /\ recv' = recv
             /\ \A max \in {SmallCap, DefaultMaxLines} :
                   (RegisterLog(k, max) /\ k \notin DOMAIN buffers) =>
                      buffers'[k] = NewBuffer(max) /\ subscribers'[k] = <<>>
       /\ \A k \in DOMAIN buffers' : StrayLines(buffers'[k].lines) = {}
       /\ \A s \in Subs : \A i \in 1..Len(recv'[s]) :
             StrayLines(recv'[s][i].content) = {}
      ]_vars

(***************************************************************************)
(* Callbacks that unsubscribe.  The slot of a signal is taken one callback *)
(* at a time; a callback may call unsubscribe for its own subscriber or    *)
(* for another one.  _on_content_available, _on_stream_interrupted and     *)
(* _on_stream_resumed iterate a copy of the key's list, _on_cleared the    *)
(* list itself.  The signal stays at the head of the queue until its slot  *)
(* returns.                                                                *)
(***************************************************************************)
InSlot == lk.th["gui"].m = "slot"

\* The list the slot's for loop iterates.
SlotList ==
    IF Head(sigq).sig = "cleared" THEN SubsOf(Head(sigq).key) ELSE lk.th["gui"].subs

\* The slot is entered: the chunk is buffered, the list copied if the slot
\* copies it.  The subscribers of the key at this point are the ones the
\* notification is issued to.
SlotEnter ==
    /\ sigq # <<>>
    /\ ~InSlot
    /\ LET sg == Head(sigq)
       IN  /\ buffers' = IF sg.sig = "content" /\ sg.key \in DOMAIN buffers
                         THEN [buffers EXCEPT ![sg.key] = BufAppend(@, sg.content)]
                         ELSE buffers
           /\ procCount' = IF sg.sig = "content"
                           THEN [procCount EXCEPT ![sg.key] = @ + 1]
                           ELSE procCount
           /\ lk' = [lk EXCEPT !.th["gui"] =
                       [m |-> "slot", pc |-> 1, c |-> <<>>,
                        subs |-> IF sg.sig = "cleared" THEN <<>> ELSE SubsOf(sg.key)]]
           /\ expected' = [s \in Subs |-> IF s \in Range(SubsOf(sg.key))
                                          THEN Append(expected[s], sg)
                                          ELSE expected[s]]
    /\ UNCHANGED <<sigq, subscribers, recv, raisers, escaped, pubSeq, subAt, snap, recvAt,
                   bufBase, cnt, tailVars, patVars, reg, ws, fp>>

\* The next callback of the loop; it unsubscribes u, or nobody.
SlotCall(u) ==
    /\ InSlot
    /\ lk.th["gui"].pc <= Len(SlotList)
    /\ LET k == Head(sigq).key
           s == SlotList[lk.th["gui"].pc]
       IN  /\ recv' = [recv EXCEPT ![s] = Append(@, Head(sigq))]
           /\ IF u = None
              THEN UNCHANGED <<subscribers, subAt>>
              ELSE /\ k \in DOMAIN subscribers
                   /\ u \in Range(subscribers[k])
                   /\ subscribers' = [subscribers EXCEPT ![k] = Remove(@, u)]
                   /\ subAt' = [subAt EXCEPT ![<<k, u>>] = -1]
    /\ lk' = [lk EXCEPT !.th["gui"].pc = @ + 1]
    /\ UNCHANGED <<buffers, sigq, raisers, escaped, pubSeq, procCount, snap, recvAt,
                   expected, bufBase, cnt, tailVars, patVars, reg, ws, fp>>

\* The loop has ended and the slot returns.
SlotLeave ==
    /\ InSlot
    /\ lk.th["gui"].pc > Len(SlotList)
    /\ sigq' = Tail(sigq)
    /\ lk' = [lk EXCEPT !.th["gui"] = Outside]
    /\ UNCHANGED <<buffers, subscribers, recv, raisers, escaped, pubSeq, procCount, subAt,
                   snap, recvAt, expected, bufBase, cnt, tailVars, patVars, reg, ws, fp>>

\* k1 is registered and both subscribers are subscribed to it, in either order.
InitReenter ==
    /\ \E l \in {<<"s1", "s2">>, <<"s2", "s1">>} :
          HubStart([k \in Keys |-> NewBuffer(DefaultMaxLines)],
                   [k \in Keys |-> IF k \in OpKeys THEN l ELSE <<>>])
    /\ raisers = {}
    /\ cnt = NoCounts
    /\ fs = NoFiles
    /\ tl = NewTailer(FALSE)
    /\ pd = NoDir
    /\ pt = NewPattern(FALSE)
    /\ reg = NoRegistry
    /\ ws = NoWatchers
    /\ lk = NoLock
    /\ fp = NoProvider

NextReenter ==
    \/ SlotEnter
    \/ \E u \in Subs \cup {None} : SlotCall(u)
    \/ SlotLeave
    \/ \E k \in OpKeys, s \in Subs : ~InSlot /\ Subscribe(k, s)
    \/ \E k \in OpKeys : ProducerPublish(k)
    \/ \E k \in OpKeys : ProducerInterrupted(k)
    \/ \E k \in OpKeys : ProducerResumed(k)
    \/ \E k \in OpKeys : ProducerClear(k)

SpecReenter == InitReenter /\ [][NextReenter]_vars

\* C39: whatever the callbacks unsubscribe, a notification reaches each
\* subscriber that was subscribed to its key when its slot began exactly
\* once: no subscriber ever has more callbacks than were issued to it, and
\* once the slot has returned it has had every one of them, in order.
C39_UnsubscribeInCallback ==
    /\ \A s \in Subs : Len(recv[s]) <= Len(expected[s])
    /\ ~InSlot => \A s \in Subs : recv[s] = expected[s]

(***************************************************************************)
(* The buffer and the clears.  Here the first number of a published line   *)
(* is the number of clear_buffer calls made before its publish_content,    *)
(* the second the number of the publish: a line tells which side of a      *)
(* clear it was published on.  The key stays registered.                   *)
(***************************************************************************)
ProducerPublishDated(k) ==
    /\ HubOps < MaxHubOps
    /\ Count("pub")
    /\ HubCalls(<<Sig("content", k, <<<<cnt.evt, cnt.pub + 1>>>>, "")>>)
    /\ UNCHANGED <<subscribers, recv, raisers, escaped, procCount, subAt, snap, recvAt,
                   expected>>
    /\ UNCHANGED nonHub

NextDated ==
    \/ \E k \in OpKeys : ProducerPublishDated(k)
    \/ \E k \in OpKeys : ProducerClear(k)
    \/ \E k \in OpKeys, s \in Subs : Subscribe(k, s)
    \/ HubProcess

SpecDated == InitHub /\ [][NextDated]_vars

\* The chunks published on k since the last clear_buffer(k) that the Hub has
\* handled, in publish order.
SinceClear(k) ==
    SelectSeq(SubSeq(pubSeq[k], 1, procCount[k]), LAMBDA c : c[1][1] = cnt.evt)

\* C40: the buffer of a registered key holds the last lines, up to its
\* capacity, of the chunks published on the key since its last clear (of
\* those the Hub has handled; all of their lines while none was evicted),
\* and the catch-up of a subscription made now is that content.
C40_BufferIsPublishedSinceClear ==
    \A k \in OpKeys :
        /\ buffers[k].lines = LastN(Flatten(SinceClear(k)), buffers[k].max)
        /\ \A s \in Subs :
              CatchUp(k, s) = IF buffers[k].lines = <<>> THEN <<>>
                              ELSE <<Sig("content", k, buffers[k].lines, "")>>

====
